---- MODULE Spec2Model ----
(***************************************************************************)
(* Webhook-driven exchange orchestrator of runners/aries_agent.py          *)
(* (class AriesAgent).  The specifications of this module:                 *)
(*   Spec       the two credential-issuance state handlers and their       *)
(*              tracker (cred_state), one action per webhook handler;      *)
(*   SpecDetail Spec and the two issuance detail handlers;                 *)
(*   SpecProof  the presentation handlers, every state and call outcome;   *)
(*   SpecSel    the credential selection of the presentation handlers,     *)
(*              applied once to each request and wallet response;          *)
(*   SpecConn   the connection lifecycle of one agent (readiness future,   *)
(*              detect_connection, reuse, role declaration);               *)
(*   SpecRole   the role declaration of an author and an endorser at the   *)
(*              two ends of a connection, in time.                         *)
(* A handler is one action: the admin calls it awaits are part of it, and  *)
(* the outcome of each call (success or aiohttp ClientError) is an input.  *)
(***************************************************************************)
EXTENDS Integers, Sequences, FiniteSets, TLC

VARIABLES
    \* ---- AriesAgent fields (aries_agent.py 83-89, issuer.py 66)
    cred_state,                 \* self.cred_state: exchange id -> last state
    cred_attrs,                 \* self.cred_attrs: cred def id -> attributes
    last_credential_received,   \* self.last_credential_received
    last_proof_received,        \* self.last_proof_received
    connection_id,              \* self.connection_id
    connection_ready,           \* self._connection_ready: None, pending, done
    \* ---- the handler call that ran last, and what it did
    event,                      \* the message handed to the handler
    emitted,                    \* admin commands it issued, in order
    raised,                     \* exception that left the handler, or "none"
    fresh,                      \* it went past the tracker's duplicate check
    prior,                      \* how its local prev_state (line 168 / 236) stood to
                                \* the reported state: absent, equal, forward, backward
    repeat,                     \* event has the topic, id and state of the one before
    reported,                   \* exchange id -> state of the last issuance event
    \* ---- presentation inputs (the request and what the wallet returns)
    pres_request,
    wallet,
    \* ---- connection lifecycle bookkeeping
    endorser_role,              \* self.endorser_role
    waiter,                     \* position of the detect_connection caller
    cycle,                      \* bookkeeping of the current connection cycle
    timers,                     \* sleeps of this agent's handlers, in seconds
    peers,                      \* the two agents at the ends of one connection
    issued,                     \* their set-endorser-role commands of the last seconds
    \* ---- AgentContainer (agent_container.py 47-100)
    container,                  \* the container create_agent_with_args returned
    \* ---- handlers suspended at an await of an admin call
    inflight                    \* the handler calls waiting for a response

vars == << cred_state, cred_attrs, last_credential_received, last_proof_received,
           connection_id, connection_ready, event, emitted, raised, fresh,
           prior, repeat, reported, pres_request, wallet, endorser_role,
           waiter, cycle, timers, peers, issued, container, inflight >>

None == "None"
NoEvent == [topic |-> "none"]

(***************************************************************************)
(* Bounds                                                                  *)
(***************************************************************************)
MaxExchanges == 2
ExIds == 1..MaxExchanges

(***************************************************************************)
(* Credential issuance: the two state handlers and the tracker             *)
(***************************************************************************)
\* states of the legacy machine the handler branches on (aries_agent.py 180-229)
LegacyStates == {"offer_received", "request_received", "credential_acked",
                 "abandoned"}
\* states of the multi-format machine (aries_agent.py 243-271)
V2States == {"offer-received", "request-received", "done", "abandoned"}

\* position of a state in its protocol: offer, request, stored, and abandoned,
\* after which nothing follows
Rank(s) ==
    CASE s \in {"offer_received", "offer-received"} -> 1
      [] s \in {"request_received", "request-received"} -> 2
      [] s \in {"credential_acked", "done"} -> 3
      [] s = "abandoned" -> 4
      [] OTHER -> 0

\* how the stored state old stands to the reported state st
Prior(old, st) ==
    CASE old = None -> "absent"
      [] old = st -> "equal"
      [] Rank(st) < Rank(old) -> "backward"
      [] OTHER -> "forward"
CredDefIds == {"cd1", "cd2"}
\* the name/value pairs an issuer prepares for a credential definition, in dict order
PreparedAttrs == << << "name", "Alice" >>, << "date", "2018-05-28" >> >>
\* the keys of by_format.cred_offer: one of the two formats, both, or neither
OfferFormats == {"indy", "ld_proof", "both", "neither"}
\* the DIDs the wallet may return for /wallet/did/create
HolderDids == {"did:key:1", "did:key:2"}
CredIds == {"cred1", "cred2"}

Cmd(name, id, arg) == [cmd |-> name, id |-> id, arg |-> arg]
\* a command whose response the handler goes on to use (None when it failed)
CmdReturning(name, id, arg, result) ==
    [cmd |-> name, id |-> id, arg |-> arg, result |-> result]

\* what a handler call leaves behind
Outcome(cs, isFresh, cmds, exc) ==
    [cs |-> cs, fresh |-> isFresh, emitted |-> cmds, raised |-> exc]

\* faulty variant: the tracker keeps the state of one exchange only
ApplyForgetsOthers(cs, id, st) ==
    IF cs[id] = st
    THEN [fresh |-> FALSE, cs |-> cs]
    ELSE [fresh |-> TRUE, cs |-> [i \in DOMAIN cs |-> IF i = id THEN st ELSE None]]
\* faulty variant: stores only the first state reported for an exchange
ApplyAcceptsOnlyUnknown(cs, id, st) ==
    IF cs[id] = None
    THEN [fresh |-> TRUE, cs |-> [cs EXCEPT ![id] = st]]
    ELSE [fresh |-> FALSE, cs |-> cs]
\* faulty variant: drops a report of an earlier protocol state
ApplyMonotone(cs, id, st) ==
    IF cs[id] = st \/ Prior(cs[id], st) = "backward"
    THEN [fresh |-> FALSE, cs |-> cs]
    ELSE [fresh |-> TRUE, cs |-> [cs EXCEPT ![id] = st]]
\* faulty variant: a repeated report counts as new
ApplyNoDedup(cs, id, st) ==
    [fresh |-> TRUE, cs |-> [cs EXCEPT ![id] = st]]
\* aries_agent.py 168-171 and 236-239: the tracker's compare-and-store
Apply(cs, id, st) ==
    IF cs[id] = st
    THEN [fresh |-> FALSE, cs |-> cs]
    ELSE [fresh |-> TRUE, cs |-> [cs EXCEPT ![id] = st]]

\* faulty variant: an abandoned exchange is started over with a new request
IssueCredentialBranchRecovers(cs, attrs, msg, failAt) ==
    CASE msg.state \in {"offer_received", "abandoned"} ->
            Outcome(cs, TRUE, << Cmd("send-request", msg.id, "-") >>,
                    IF failAt = 1 THEN "ClientError" ELSE "none")
      [] msg.state = "credential_acked" ->
            Outcome(cs, TRUE, << Cmd("fetch-credential", msg.id, msg.credential_id) >>,
                    IF failAt = 1 THEN "ClientError" ELSE "none")
      [] msg.state = "request_received" ->
            IF msg.credential_definition_id \in DOMAIN attrs
            THEN Outcome(cs, TRUE,
                         << Cmd("issue", msg.id, attrs[msg.credential_definition_id]) >>,
                         "none")
            ELSE Outcome(cs, TRUE, << >>, "KeyError")
      [] OTHER -> Outcome(cs, TRUE, << >>, "none")
\* aries_agent.py 180-231: the branch on the state, after the tracker.
\* failAt is the index of the admin call that ends in ClientError (0: none).
IssueCredentialBranch(cs, attrs, msg, failAt) ==
    CASE msg.state = "offer_received" ->
            Outcome(cs, TRUE, << Cmd("send-request", msg.id, "-") >>,
                    IF failAt = 1 THEN "ClientError" ELSE "none")
      [] msg.state = "credential_acked" ->
            Outcome(cs, TRUE, << Cmd("fetch-credential", msg.id, msg.credential_id) >>,
                    IF failAt = 1 THEN "ClientError" ELSE "none")
      [] msg.state = "request_received" ->
            IF msg.credential_definition_id \in DOMAIN attrs
            THEN Outcome(cs, TRUE,
                         << Cmd("issue", msg.id, attrs[msg.credential_definition_id]) >>,
                         "none")
            ELSE Outcome(cs, TRUE, << >>, "KeyError")
      [] OTHER -> Outcome(cs, TRUE, << >>, "none")

\* aries_agent.py 165-231
handle_issue_credential(cs, attrs, msg, failAt) ==
    LET a == Apply(cs, msg.id, msg.state)
    IN  IF ~a.fresh
        THEN Outcome(cs, FALSE, << >>, "none")
        ELSE IssueCredentialBranch(a.cs, attrs, msg, failAt)

\* faulty variant: the done state still fetches the stored credential, as
\* before the logic moved to the detail handler
IssueCredentialV2BranchDoneFetches(cs, msg, failAt, did) ==
    CASE msg.state = "request-received" ->
            Outcome(cs, TRUE, << Cmd("issue", msg.id, "-") >>,
                    IF failAt = 1 THEN "ClientError" ELSE "none")
      [] msg.state = "offer-received" /\ msg.cred_offer \in {"indy", "both"} ->
            Outcome(cs, TRUE, << Cmd("send-request", msg.id, "-") >>,
                    IF failAt = 1 THEN "ClientError" ELSE "none")
      [] msg.state = "offer-received" /\ msg.cred_offer = "ld_proof" ->
            IF failAt = 1
            THEN Outcome(cs, TRUE,
                         << CmdReturning("create-did", msg.id, "bls12381g2", None) >>,
                         "ClientError")
            ELSE Outcome(cs, TRUE,
                         << CmdReturning("create-did", msg.id, "bls12381g2", did),
                            Cmd("send-request", msg.id, did) >>,
                         IF failAt = 2 THEN "ClientError" ELSE "none")
      [] msg.state = "done" ->
            Outcome(cs, TRUE, << Cmd("fetch-credential", msg.id, "-") >>,
                    IF failAt = 1 THEN "ClientError" ELSE "none")
      [] OTHER -> Outcome(cs, TRUE, << >>, "none")
\* faulty variant: the ld_proof key is tested before the indy key
IssueCredentialV2BranchLdProofFirst(cs, msg, failAt, did) ==
    CASE msg.state = "request-received" ->
            Outcome(cs, TRUE, << Cmd("issue", msg.id, "-") >>,
                    IF failAt = 1 THEN "ClientError" ELSE "none")
      [] msg.state = "offer-received" /\ msg.cred_offer \in {"ld_proof", "both"} ->
            IF failAt = 1
            THEN Outcome(cs, TRUE,
                         << CmdReturning("create-did", msg.id, "bls12381g2", None) >>,
                         "ClientError")
            ELSE Outcome(cs, TRUE,
                         << CmdReturning("create-did", msg.id, "bls12381g2", did),
                            Cmd("send-request", msg.id, did) >>,
                         IF failAt = 2 THEN "ClientError" ELSE "none")
      [] msg.state = "offer-received" /\ msg.cred_offer = "indy" ->
            Outcome(cs, TRUE, << Cmd("send-request", msg.id, "-") >>,
                    IF failAt = 1 THEN "ClientError" ELSE "none")
      [] OTHER -> Outcome(cs, TRUE, << >>, "none")
\* faulty variant: the request is sent although the key creation failed, with
\* no holder_did
IssueCredentialV2BranchSendsAnyway(cs, msg, failAt, did) ==
    CASE msg.state = "request-received" ->
            Outcome(cs, TRUE, << Cmd("issue", msg.id, "-") >>,
                    IF failAt = 1 THEN "ClientError" ELSE "none")
      [] msg.state = "offer-received" /\ msg.cred_offer \in {"indy", "both"} ->
            Outcome(cs, TRUE, << Cmd("send-request", msg.id, "-") >>,
                    IF failAt = 1 THEN "ClientError" ELSE "none")
      [] msg.state = "offer-received" /\ msg.cred_offer = "ld_proof" ->
            IF failAt = 1
            THEN Outcome(cs, TRUE,
                         << CmdReturning("create-did", msg.id, "bls12381g2", None),
                            Cmd("send-request", msg.id, "-") >>,
                         "none")
            ELSE Outcome(cs, TRUE,
                         << CmdReturning("create-did", msg.id, "bls12381g2", did),
                            Cmd("send-request", msg.id, did) >>,
                         IF failAt = 2 THEN "ClientError" ELSE "none")
      [] OTHER -> Outcome(cs, TRUE, << >>, "none")
\* aries_agent.py 243-273.  An offer with both keys takes the indy branch
\* (251-256).  did is the DID the wallet returns for the key creation; the
\* send-request carries it as holder_did (262-265).  No admin call of this
\* handler is inside a try.
IssueCredentialV2Branch(cs, msg, failAt, did) ==
    CASE msg.state = "request-received" ->
            Outcome(cs, TRUE, << Cmd("issue", msg.id, "-") >>,
                    IF failAt = 1 THEN "ClientError" ELSE "none")
      [] msg.state = "offer-received" /\ msg.cred_offer \in {"indy", "both"} ->
            Outcome(cs, TRUE, << Cmd("send-request", msg.id, "-") >>,
                    IF failAt = 1 THEN "ClientError" ELSE "none")
      [] msg.state = "offer-received" /\ msg.cred_offer = "ld_proof" ->
            IF failAt = 1
            THEN Outcome(cs, TRUE,
                         << CmdReturning("create-did", msg.id, "bls12381g2", None) >>,
                         "ClientError")
            ELSE Outcome(cs, TRUE,
                         << CmdReturning("create-did", msg.id, "bls12381g2", did),
                            Cmd("send-request", msg.id, did) >>,
                         IF failAt = 2 THEN "ClientError" ELSE "none")
      [] OTHER -> Outcome(cs, TRUE, << >>, "none")

\* aries_agent.py 233-273
handle_issue_credential_v2_0(cs, msg, failAt, did) ==
    LET a == Apply(cs, msg.id, msg.state)
    IN  IF ~a.fresh
        THEN Outcome(cs, FALSE, << >>, "none")
        ELSE IssueCredentialV2Branch(a.cs, msg, failAt, did)

\* faulty variant: the marker is written whether or not the event names a
\* stored credential
handle_issue_credential_v2_0_indy_always(last, msg, failAt) ==
    IF msg.cred_id_stored # None
    THEN IF failAt = 1
         THEN [last |-> last,
               emitted |-> << Cmd("fetch-credential", "-", msg.cred_id_stored) >>,
               raised |-> "ClientError"]
         ELSE [last |-> msg.cred_id_stored,
               emitted |-> << Cmd("fetch-credential", "-", msg.cred_id_stored) >>,
               raised |-> "none"]
    ELSE [last |-> None, emitted |-> << >>, raised |-> "none"]
\* aries_agent.py 275-293: the indy detail event.  The credential the wallet
\* returns for cred_id_stored is named by that id.
handle_issue_credential_v2_0_indy(last, msg, failAt) ==
    IF msg.cred_id_stored # None
    THEN IF failAt = 1
         THEN [last |-> last,
               emitted |-> << Cmd("fetch-credential", "-", msg.cred_id_stored) >>,
               raised |-> "ClientError"]
         ELSE [last |-> msg.cred_id_stored,
               emitted |-> << Cmd("fetch-credential", "-", msg.cred_id_stored) >>,
               raised |-> "none"]
    ELSE [last |-> last, emitted |-> << >>, raised |-> "none"]

\* the messages of the feed, with the fields the handlers read
LegacyMessages ==
    { [topic |-> "issue_credential", id |-> i, state |-> s,
       credential_id |-> "-", credential_definition_id |-> "-"] :
         i \in ExIds, s \in LegacyStates \ {"credential_acked", "request_received"} }
    \cup
    { [topic |-> "issue_credential", id |-> i, state |-> "credential_acked",
       credential_id |-> "cred1", credential_definition_id |-> "-"] :
         i \in ExIds }
    \cup
    { [topic |-> "issue_credential", id |-> i, state |-> "request_received",
       credential_id |-> "-", credential_definition_id |-> d] :
         i \in ExIds, d \in CredDefIds }

V2Messages ==
    { [topic |-> "issue_credential_v2_0", id |-> i, state |-> s, cred_offer |-> "-"] :
         i \in ExIds, s \in V2States \ {"offer-received"} }
    \cup
    { [topic |-> "issue_credential_v2_0", id |-> i, state |-> "offer-received",
       cred_offer |-> f] : i \in ExIds, f \in OfferFormats }

IndyDetailMessages ==
    { [topic |-> "issue_credential_v2_0_indy", cred_id_stored |-> c] :
         c \in CredIds \cup {None} }

IssueTopics == {"issue_credential", "issue_credential_v2_0"}

\* two messages report the same state of the same exchange on the same topic
SameKey(e, msg) ==
    /\ e.topic = msg.topic
    /\ e.topic \in {"issue_credential", "issue_credential_v2_0",
                    "present_proof", "present_proof_v2_0"}
    /\ e.id = msg.id
    /\ e.state = msg.state

issueVars == << cred_state, cred_attrs, last_credential_received, reported >>
callVars == << event, emitted, raised, fresh, prior, repeat >>
proofVars == << pres_request, wallet, last_proof_received >>
connVars == << connection_id, connection_ready, endorser_role, waiter, cycle,
               timers, peers, issued, container, inflight >>

\* no handler was called yet
NoCalls == [n |-> 0, calls |-> {}, fetches |-> {}, marks |-> << >>]
\* no AgentContainer was created yet
NoContainer ==
    [created |-> FALSE, cred_type |-> None, revocation |-> FALSE,
     public_did |-> FALSE, aip |-> 20, use_did_exchange |-> FALSE,
     mediation |-> FALSE, reuse_connections |-> FALSE]

NoRequest == [attrs |-> << >>, preds |-> << >>]
ProofIdle ==
    /\ pres_request = NoRequest
    /\ wallet = << >>
    /\ last_proof_received = None
\* aries_agent.py 84: self.connection_id = None (falsy, as line 133 tests it)
NoConnection == 0
\* nobody is suspended in detect_connection
NoWaiter == [pos |-> "idle", fut |-> 0, done |-> FALSE]
\* no invitation was generated or input yet
NoCycle == [n |-> 0, side |-> "none", conn |-> NoConnection, seen |-> "nothing",
            sets |-> 0, returned |-> FALSE, after_return |-> FALSE, decls |-> 0]
PeerNames == {"p1", "p2"}
\* aries_agent.py 83-89 for an agent started with the role role
NewAgent(role) == [connection_id |-> NoConnection, connection_ready |-> None,
                   endorser_role |-> role, timers |-> << >>]
NoPeers == [p \in PeerNames |-> NewAgent(None)]
ConnIdle ==
    /\ connection_id = NoConnection
    /\ connection_ready = None
    /\ endorser_role = None
    /\ waiter = NoWaiter
    /\ cycle = NoCycle
    /\ timers = << >>
    /\ peers = NoPeers
    /\ issued = {}
    /\ container = NoContainer
    /\ inflight = NoCalls
CallIdle ==
    /\ event = NoEvent
    /\ emitted = << >>
    /\ raised = "none"
    /\ fresh = FALSE
    /\ prior = "absent"
    /\ repeat = FALSE

\* issuer.py 66 creates cred_attrs; the scenario prepared the attributes of the
\* credential definition cd1 and none for cd2 (line 203 then raises KeyError)
PreparedCredAttrs == [d \in {"cd1"} |-> PreparedAttrs]

\* aries_agent.py 83-89
Init ==
    /\ cred_state = [i \in ExIds |-> None]
    /\ cred_attrs = PreparedCredAttrs
    /\ last_credential_received = None
    /\ reported = [i \in ExIds |-> None]
    /\ CallIdle
    /\ ProofIdle
    /\ ConnIdle

HandleIssueCredential ==
    \E msg \in LegacyMessages, failAt \in 0..1 :
        LET r == handle_issue_credential(cred_state, cred_attrs, msg, failAt)
        IN  /\ cred_state' = r.cs
            /\ event' = msg
            /\ emitted' = r.emitted
            /\ raised' = r.raised
            /\ fresh' = r.fresh
            /\ prior' = Prior(cred_state[msg.id], msg.state)
            /\ repeat' = SameKey(event, msg)
            /\ reported' = [reported EXCEPT ![msg.id] = msg.state]
            /\ UNCHANGED << cred_attrs, last_credential_received, proofVars, connVars >>

HandleIssueCredentialV2 ==
    \E msg \in V2Messages, failAt \in 0..2, did \in HolderDids :
        LET r == handle_issue_credential_v2_0(cred_state, msg, failAt, did)
        IN  /\ cred_state' = r.cs
            /\ event' = msg
            /\ emitted' = r.emitted
            /\ raised' = r.raised
            /\ fresh' = r.fresh
            /\ prior' = Prior(cred_state[msg.id], msg.state)
            /\ repeat' = SameKey(event, msg)
            /\ reported' = [reported EXCEPT ![msg.id] = msg.state]
            /\ UNCHANGED << cred_attrs, last_credential_received, proofVars, connVars >>

HandleIssueCredentialV2Indy ==
    \E msg \in IndyDetailMessages, failAt \in 0..1 :
        LET r == handle_issue_credential_v2_0_indy(last_credential_received, msg, failAt)
        IN  /\ last_credential_received' = r.last
            /\ event' = msg
            /\ emitted' = r.emitted
            /\ raised' = r.raised
            /\ fresh' = TRUE
            /\ prior' = "absent"
            /\ repeat' = FALSE
            /\ UNCHANGED << cred_state, cred_attrs, reported, proofVars, connVars >>

\* aries_agent.py 295-296: the linked-data detail event is logged only
HandleIssueCredentialV2LdProof ==
    /\ event' = [topic |-> "issue_credential_v2_0_ld_proof"]
    /\ emitted' = << >>
    /\ raised' = "none"
    /\ fresh' = TRUE
    /\ prior' = "absent"
    /\ repeat' = FALSE
    /\ UNCHANGED << issueVars, proofVars, connVars >>

\* the state events of the two issuance machines
Next ==
    \/ HandleIssueCredential
    \/ HandleIssueCredentialV2

Spec == Init /\ [][Next]_vars

\* the state events and the two detail events
NextDetail ==
    \/ HandleIssueCredential
    \/ HandleIssueCredentialV2
    \/ HandleIssueCredentialV2Indy
    \/ HandleIssueCredentialV2LdProof

SpecDetail == Init /\ [][NextDetail]_vars

(***************************************************************************)
(* Presentation: the selection of credentials and the two handlers         *)
(***************************************************************************)
MaxCreds == 2
\* referent names of a request; "a" may also name a requested predicate
AttrNames == {"a", "b", "c"}
PredNames == {"a"}
\* values of the timestamp attribute of held credentials
Timestamps == {100, 200}
\* aries_agent.py 351 and 448
SelfAttestedValue == "my self-attested value"

\* strings the linked-data matching compares, as sequences of characters
TypeVC == << "V", "C" >>
TypePR == << "P", "R" >>
UriVC == << "w", "#", "V", "C" >>
UriPR == << "c", "#", "P", "R" >>

\* Python's `t in u` on strings
IsSubstring(t, u) ==
    \E i \in 0..(Len(u) - Len(t)) : SubSeq(u, i + 1, i + Len(t)) = t

\* a dict with one more key
Put(f, k, v) == [x \in DOMAIN f \cup {k} |-> IF x = k THEN v ELSE f[x]]
EmptyDict == [x \in {} |-> None]

\* what the wallet returns for /credentials: a list of rows.  An indy row has
\* cred_info (referent, attrs with or without timestamp) and
\* presentation_referents; a linked-data row has issuanceDate, type and
\* record_id.  The credential's identifier is its place in the list.
IndyRow(ts, refs) ==
    [kind |-> "indy", has_ts |-> TRUE, ts |-> ts, refs |-> refs, date |-> 0,
     types |-> << >>]
IndyRowNoTimestamp(refs) ==
    [kind |-> "indy", has_ts |-> FALSE, ts |-> 0, refs |-> refs, date |-> 0,
     types |-> << >>]
DifRow(date, types) ==
    [kind |-> "dif", has_ts |-> FALSE, ts |-> 0, refs |-> {}, date |-> date,
     types |-> types]
WithIds(resp) ==
    [i \in 1..Len(resp) |->
        [id |-> i, kind |-> resp[i].kind, has_ts |-> resp[i].has_ts,
         ts |-> resp[i].ts, refs |-> resp[i].refs, date |-> resp[i].date,
         types |-> resp[i].types]]

\* sorted(rows, key=..., reverse=True): descending by key, rows of equal key
\* in their original order
SortedDescending(rows, keys) ==
    LET n == Len(rows)
        Ahead(j, i) == keys[j] > keys[i] \/ (keys[j] = keys[i] /\ j < i)
    IN  [k \in 1..n |->
            rows[CHOOSE i \in 1..n : Cardinality({j \in 1..n : Ahead(j, i)}) = k - 1]]
\* the sort keys of aries_agent.py 332 / 427 and of 481, one per row
TimestampOf(rows) == [k \in 1..Len(rows) |-> rows[k].ts]
DateOf(rows) == [k \in 1..Len(rows) |-> rows[k].date]

\* aries_agent.py 330-337 and 424-428: the rows by timestamp, newest first
sorted_by_timestamp(rows) == SortedDescending(rows, TimestampOf(rows))

\* aries_agent.py 335-337 and 431-434: the first row, in the order given, that
\* lists each referent
credentials_by_reft(rows) ==
    [r \in UNION {rows[k].refs : k \in 1..Len(rows)} |->
        rows[CHOOSE k \in 1..Len(rows) :
                /\ r \in rows[k].refs
                /\ \A j \in 1..(k - 1) : r \notin rows[j].refs]]

\* faulty variant: the revealed flag flips at every matched referent
RECURSIVE AttributesToggled(_, _, _, _)
AttributesToggled(attrs, by, flag, acc) ==
    IF attrs = << >>
    THEN acc
    ELSE LET r == Head(attrs)
         IN  IF r \in DOMAIN by
             THEN AttributesToggled(Tail(attrs), by, ~flag,
                    [acc EXCEPT !.revealed =
                        Put(@, r, [cred_id |-> by[r].id, revealed |-> flag])])
             ELSE AttributesToggled(Tail(attrs), by, flag,
                    [acc EXCEPT !.self_attested = Put(@, r, SelfAttestedValue)])
\* faulty variant: a matched referent is self-attested as well
RECURSIVE AttributesAlsoSelfAttested(_, _, _, _)
AttributesAlsoSelfAttested(attrs, by, flag, acc) ==
    IF attrs = << >>
    THEN acc
    ELSE LET r == Head(attrs)
         IN  IF r \in DOMAIN by
             THEN AttributesAlsoSelfAttested(Tail(attrs), by, TRUE,
                    [acc EXCEPT !.revealed =
                        Put(@, r, [cred_id |-> by[r].id, revealed |-> flag]),
                                !.self_attested =
                        IF flag THEN @ ELSE Put(@, r, SelfAttestedValue)])
             ELSE AttributesAlsoSelfAttested(Tail(attrs), by, flag,
                    [acc EXCEPT !.self_attested = Put(@, r, SelfAttestedValue)])
\* aries_agent.py 340-351 and 437-448: the loop over the requested attributes;
\* acc holds the dicts revealed and self_attested
RECURSIVE AttributesLoop(_, _, _, _)
AttributesLoop(attrs, by, flag, acc) ==
    IF attrs = << >>
    THEN acc
    ELSE LET r == Head(attrs)
         IN  IF r \in DOMAIN by
             THEN AttributesLoop(Tail(attrs), by, TRUE,
                    [acc EXCEPT !.revealed =
                        Put(@, r, [cred_id |-> by[r].id, revealed |-> flag])])
             ELSE AttributesLoop(Tail(attrs), by, flag,
                    [acc EXCEPT !.self_attested = Put(@, r, SelfAttestedValue)])

\* faulty variant: every matched predicate is given the credential of one
\* referent of the grouping, not its own
RECURSIVE PredicatesOneCredential(_, _, _)
PredicatesOneCredential(preds, by, acc) ==
    IF preds = << >>
    THEN acc
    ELSE LET r == Head(preds)
         IN  IF r \in DOMAIN by
             THEN PredicatesOneCredential(Tail(preds), by,
                    Put(acc, r, [cred_id |-> by[CHOOSE q \in DOMAIN by :
                                                   \A p \in DOMAIN by :
                                                       by[q].id >= by[p].id].id]))
             ELSE PredicatesOneCredential(Tail(preds), by, acc)
\* faulty variant: an unmatched predicate is submitted without a credential
RECURSIVE PredicatesUnmatchedToo(_, _, _)
PredicatesUnmatchedToo(preds, by, acc) ==
    IF preds = << >>
    THEN acc
    ELSE LET r == Head(preds)
         IN  IF r \in DOMAIN by
             THEN PredicatesUnmatchedToo(Tail(preds), by,
                                         Put(acc, r, [cred_id |-> by[r].id]))
             ELSE PredicatesUnmatchedToo(Tail(preds), by, Put(acc, r, [cred_id |-> 0]))
\* aries_agent.py 353-359 and 450-456: the loop over the requested predicates
RECURSIVE PredicatesLoop(_, _, _)
PredicatesLoop(preds, by, acc) ==
    IF preds = << >>
    THEN acc
    ELSE LET r == Head(preds)
         IN  IF r \in DOMAIN by
             THEN PredicatesLoop(Tail(preds), by, Put(acc, r, [cred_id |-> by[r].id]))
             ELSE PredicatesLoop(Tail(preds), by, acc)

\* faulty variant: revealed_flag is kept across handler calls instead of being
\* reset at each, so a call after one that sent a submission starts from True
IndySubmissionFlagKept(req, by) ==
    LET kept == /\ emitted # << >>
                /\ emitted[Len(emitted)].cmd = "send-presentation"
        a == AttributesLoop(req.attrs, by, kept,
                            [revealed |-> EmptyDict, self_attested |-> EmptyDict])
    IN  [requested_predicates |-> PredicatesLoop(req.preds, by, EmptyDict),
         requested_attributes |-> a.revealed,
         self_attested_attributes |-> a.self_attested]
\* aries_agent.py 339-366 and 436-465: the three dicts of the submission
IndySubmission(req, by) ==
    LET a == AttributesLoop(req.attrs, by, FALSE,
                            [revealed |-> EmptyDict, self_attested |-> EmptyDict])
    IN  [requested_predicates |-> PredicatesLoop(req.preds, by, EmptyDict),
         requested_attributes |-> a.revealed,
         self_attested_attributes |-> a.self_attested]

\* aries_agent.py 329-366: the legacy selection on the wallet's response.
\* A row without cred_info or without a timestamp raises KeyError in the
\* sort key (line 332).
LegacySelection(req, resp) ==
    LET rows == WithIds(resp)
    IN  IF resp = << >>
        THEN [raised |-> "none", request |-> IndySubmission(req, EmptyDict)]
        ELSE IF \E k \in 1..Len(rows) : rows[k].kind # "indy" \/ ~rows[k].has_ts
        THEN [raised |-> "KeyError", request |-> None]
        ELSE [raised |-> "none",
              request |-> IndySubmission(req,
                              credentials_by_reft(sorted_by_timestamp(rows)))]

\* aries_agent.py 420-465: the attribute-based section of the multi-format
\* selection.  creds[0] raises IndexError when no row has cred_info (line
\* 423); the sort raises KeyError when the first row has a timestamp and
\* another has none (line 426).
V2IndySelection(req, resp) ==
    LET creds == SelectSeq(WithIds(resp), LAMBDA x : x.kind = "indy")
    IN  IF resp = << >>
        THEN [raised |-> "none", section |-> IndySubmission(req, EmptyDict)]
        ELSE IF creds = << >>
        THEN [raised |-> "IndexError", section |-> None]
        ELSE IF ~creds[1].has_ts
        THEN [raised |-> "none",
              section |-> IndySubmission(req, credentials_by_reft(creds))]
        ELSE IF \E k \in 1..Len(creds) : ~creds[k].has_ts
        THEN [raised |-> "KeyError", section |-> None]
        ELSE [raised |-> "none",
              section |-> IndySubmission(req,
                              credentials_by_reft(sorted_by_timestamp(creds)))]

\* aries_agent.py 641-652
RECURSIVE TypesLoop(_, _, _)
TypesLoop(uri, types, result) ==
    IF types = << >>
    THEN result
    ELSE IF IsSubstring(Head(types), uri)
         THEN TRUE
         ELSE TypesLoop(uri, Tail(types), FALSE)
RECURSIVE UrisLoop(_, _, _)
UrisLoop(uris, types, result) ==
    IF uris = << >>
    THEN result
    ELSE UrisLoop(Tail(uris), types, TypesLoop(Head(uris), types, result))
check_input_descriptor_record_id(input_descriptor_schema_uri, record) ==
    UrisLoop(input_descriptor_schema_uri, record.types, FALSE)

\* aries_agent.py 494-511: record_ids, one entry per input descriptor that a
\* record matches
RECURSIVE DescriptorsLoop(_, _, _)
DescriptorsLoop(descriptors, records, acc) ==
    IF descriptors = << >>
    THEN acc
    ELSE LET d == Head(descriptors)
             hits == {k \in 1..Len(records) :
                        check_input_descriptor_record_id(d.uris, records[k])}
         IN  IF hits = {}
             THEN DescriptorsLoop(Tail(descriptors), records, acc)
             ELSE DescriptorsLoop(Tail(descriptors), records,
                    Put(acc, d.id,
                        << records[CHOOSE k \in hits : \A j \in hits : k <= j].id >>))

\* aries_agent.py 476-513: the linked-data section of the multi-format selection
V2DifSelection(req, resp) ==
    LET records == IF resp = << >>
                   THEN << >>
                   ELSE LET difs == SelectSeq(WithIds(resp), LAMBDA x : x.kind = "dif")
                        IN  SortedDescending(difs, DateOf(difs))
    IN  [record_ids |-> DescriptorsLoop(req.descriptors, records, EmptyDict)]

\* what a presentation handler call leaves behind; a credential fetch is
\* recorded with what it returned, None when it failed
ProofOutcome(cmds, exc, last) ==
    [emitted |-> cmds, raised |-> exc, last |-> last]

\* aries_agent.py 301-389.  fails holds the indices of the admin calls that end
\* in ClientError: 1 the credential fetch (or the verification), 2 the
\* send-presentation.  Both are caught at 376 in the request_received branch;
\* the verification is outside any try.  verified is what the agent answers
\* to verify-presentation; the handler logs it (line 384) and stores nothing.
handle_present_proof(msg, req, resp, fails, verified, last) ==
    LET fetch == CmdReturning("fetch-credentials", msg.id, "-", "credentials")
        failed == CmdReturning("fetch-credentials", msg.id, "-", None)
        sel == LegacySelection(req, resp)
    IN  CASE msg.state = "request_received" ->
                IF 1 \in fails
                THEN ProofOutcome(<< failed >>, "none", last)
                ELSE IF sel.raised # "none"
                THEN ProofOutcome(<< fetch >>, sel.raised, last)
                ELSE ProofOutcome(
                        << fetch, Cmd("send-presentation", msg.id, sel.request) >>,
                        "none", last)
          [] msg.state = "presentation_received" ->
                IF 1 \in fails
                THEN ProofOutcome(
                        << CmdReturning("verify-presentation", msg.id, "-", None) >>,
                        "ClientError", last)
                ELSE ProofOutcome(
                        << CmdReturning("verify-presentation", msg.id, "-", verified) >>,
                        "none", last)
          [] OTHER -> ProofOutcome(<< >>, "none", last)

\* aries_agent.py 391-556.  fails: 1 the fetch of the indy section (or the
\* verification), 2 the fetch of the dif section, 3 the send-presentation.
\* The two fetches are caught (467, 535); the send and the verification are
\* outside any try.
handle_present_proof_v2_0(msg, req, resp, fails, verified, last) ==
    LET Fetched(n) == IF n \in fails THEN None ELSE "credentials"
        indyFetch == IF msg.indy
                     THEN << CmdReturning("fetch-credentials", msg.id, "indy",
                                          Fetched(1)) >>
                     ELSE << >>
        difFetch == IF msg.dif
                    THEN << CmdReturning("fetch-credentials", msg.id, "dif",
                                         Fetched(2)) >>
                    ELSE << >>
        sel == V2IndySelection(req, resp)
        indyDone == msg.indy /\ 1 \notin fails
        r1 == IF indyDone /\ sel.raised = "none"
              THEN Put(EmptyDict, "indy", sel.section)
              ELSE EmptyDict
        r2 == IF msg.dif /\ 2 \notin fails
              THEN Put(r1, "dif", V2DifSelection(req, resp))
              ELSE r1
    IN  CASE msg.state = "request-received" ->
                IF ~msg.indy /\ ~msg.dif
                THEN ProofOutcome(<< >>, "Exception", last)
                ELSE IF indyDone /\ sel.raised # "none"
                THEN ProofOutcome(indyFetch, sel.raised, last)
                ELSE ProofOutcome(
                        indyFetch \o difFetch
                            \o << Cmd("send-presentation", msg.id, r2) >>,
                        IF 3 \in fails THEN "ClientError" ELSE "none", last)
          [] msg.state = "presentation-received" ->
                IF 1 \in fails
                THEN ProofOutcome(
                        << CmdReturning("verify-presentation", msg.id, "-", None) >>,
                        "ClientError", last)
                ELSE ProofOutcome(
                        << CmdReturning("verify-presentation", msg.id, "-", verified) >>,
                        "none", verified)
          [] OTHER -> ProofOutcome(<< >>, "none", last)

ProofTopics == {"present_proof", "present_proof_v2_0"}
PresentProofStates == {"request_received", "presentation_received", "abandoned"}
PresentProofV2States == {"request-received", "presentation-received", "abandoned"}

PresentProofMessages(ids) ==
    { [topic |-> "present_proof", id |-> i, state |-> s] :
        i \in ids, s \in PresentProofStates }
PresentProofV2Messages(ids) ==
    { [topic |-> "present_proof_v2_0", id |-> i, state |-> s, indy |-> FALSE,
       dif |-> FALSE] : i \in ids, s \in PresentProofV2States \ {"request-received"} }
    \cup
    { [topic |-> "present_proof_v2_0", id |-> i, state |-> "request-received",
       indy |-> x, dif |-> y] : i \in ids, x \in BOOLEAN, y \in BOOLEAN }

\* one delivery of a present_proof event
DeliverPresentProof(msg, fails, verified) ==
    LET r == handle_present_proof(msg, pres_request, wallet, fails, verified,
                                  last_proof_received)
    IN  /\ event' = msg
        /\ emitted' = r.emitted
        /\ raised' = r.raised
        /\ last_proof_received' = r.last
        /\ fresh' = TRUE
        /\ prior' = "absent"
        /\ repeat' = SameKey(event, msg)
        /\ UNCHANGED << pres_request, wallet, issueVars, connVars >>

\* one delivery of a present_proof_v2_0 event
DeliverPresentProofV2(msg, fails, verified) ==
    LET r == handle_present_proof_v2_0(msg, pres_request, wallet, fails, verified,
                                       last_proof_received)
    IN  /\ event' = msg
        /\ emitted' = r.emitted
        /\ raised' = r.raised
        /\ last_proof_received' = r.last
        /\ fresh' = TRUE
        /\ prior' = "absent"
        /\ repeat' = SameKey(event, msg)
        /\ UNCHANGED << pres_request, wallet, issueVars, connVars >>

IssueIdle ==
    /\ cred_state = [i \in ExIds |-> None]
    /\ cred_attrs = PreparedCredAttrs
    /\ last_credential_received = None
    /\ reported = [i \in ExIds |-> None]

\* the input descriptors of the linked-data section of a request
OneDescriptor == << [id |-> "d1", uris |-> << UriVC >>] >>

\* ---- SpecProof: every event of the two presentation topics, every outcome
\* of the admin calls, on a few requests and wallets
ProofRequests ==
    { [attrs |-> << "a", "b" >>, preds |-> << "a" >>, descriptors |-> OneDescriptor],
      [attrs |-> << "b" >>, preds |-> << >>, descriptors |-> OneDescriptor] }
ProofWallets ==
    { << >>,
      << IndyRow(100, {"a"}), IndyRow(200, {"a", "b"}) >>,
      << DifRow(1, << TypeVC >>) >>,
      << DifRow(1, << TypeVC >>), IndyRow(100, {"a"}) >> }

InitProof ==
    /\ pres_request \in ProofRequests
    /\ wallet \in ProofWallets
    /\ last_proof_received = None
    /\ CallIdle
    /\ IssueIdle
    /\ ConnIdle

\* the admin calls a handler can reach for a message, by index
LegacyCalls(msg) ==
    CASE msg.state = "request_received" -> {1, 2}
      [] msg.state = "presentation_received" -> {1}
      [] OTHER -> {}
V2Calls(msg) ==
    CASE msg.state = "request-received" ->
            (IF msg.indy THEN {1} ELSE {}) \cup (IF msg.dif THEN {2} ELSE {})
                \cup (IF msg.indy \/ msg.dif THEN {3} ELSE {})
      [] msg.state = "presentation-received" -> {1}
      [] OTHER -> {}
\* what the agent answers to verify-presentation
VerifiedValues(msg) ==
    IF msg.state \in {"presentation_received", "presentation-received"}
    THEN {"true", "false"}
    ELSE {"true"}

HandlePresentProof ==
    \E msg \in PresentProofMessages(ExIds) :
        \E fails \in SUBSET LegacyCalls(msg), verified \in VerifiedValues(msg) :
            DeliverPresentProof(msg, fails, verified)

HandlePresentProofV2 ==
    \E msg \in PresentProofV2Messages(ExIds) :
        \E fails \in SUBSET V2Calls(msg), verified \in VerifiedValues(msg) :
            DeliverPresentProofV2(msg, fails, verified)

NextProof ==
    \/ HandlePresentProof
    \/ HandlePresentProofV2

SpecProof == InitProof /\ [][NextProof]_vars

\* ---- SpecSel: the selection as a function of the request and of the
\* wallet's response: to each request and response drawn by InitSel, a
\* handler is applied once, on a request-received event with no failing
\* admin call
InjectiveSeqs(S) ==
    UNION { { f \in [1..n -> S] : \A i, j \in 1..n : i # j => f[i] # f[j] } :
            n \in 0..Cardinality(S) }
SeqsUpTo(S, n) == UNION { [1..k -> S] : k \in 0..n }

SelRequests ==
    { [attrs |-> a, preds |-> p, descriptors |-> OneDescriptor] :
        a \in InjectiveSeqs(AttrNames), p \in InjectiveSeqs(PredNames) }
SelRows ==
    { IndyRow(t, R) : t \in Timestamps, R \in (SUBSET AttrNames) \ {{}} }
    \cup { IndyRowNoTimestamp({"a"}), DifRow(1, << TypeVC >>) }

InitSel ==
    /\ pres_request \in SelRequests
    /\ wallet \in SeqsUpTo(SelRows, MaxCreds)
    /\ last_proof_received = None
    /\ CallIdle
    /\ IssueIdle
    /\ ConnIdle

SelectLegacy ==
    /\ event = NoEvent
    /\ DeliverPresentProof(
        [topic |-> "present_proof", id |-> 1, state |-> "request_received"], {},
        "true")

SelectV2 ==
    /\ event = NoEvent
    /\ \E dif \in BOOLEAN :
        DeliverPresentProofV2(
            [topic |-> "present_proof_v2_0", id |-> 1, state |-> "request-received",
             indy |-> TRUE, dif |-> dif], {}, "true")

NextSel ==
    \/ SelectLegacy
    \/ SelectV2

SpecSel == InitSel /\ [][NextSel]_vars

(***************************************************************************)
(* Claims about the tracker and the issuance handlers                      *)
(***************************************************************************)

\* C1: when an issue_credential or issue_credential_v2_0 event reports the
\* same exchange id and state as the event delivered just before it, its
\* handler stops at the tracker: it issues no admin command and leaves
\* cred_state as it was.
C1_DuplicateIsNoOp ==
    [][ (event'.topic \in IssueTopics /\ SameKey(event, event'))
            => /\ ~fresh'
               /\ emitted' = << >>
               /\ cred_state' = cred_state ]_vars

\* a second offer_received for the same exchange has been handled and dropped
C1_Witness ==
    /\ repeat
    /\ event.topic = "issue_credential"
    /\ event.state = "offer_received"
    /\ ~fresh
    /\ emitted = << >>

\* C2: the tracker step of both handlers is the reference apply(id, newState):
\* nothing stored -> newState stored, fresh; stored = newState -> nothing
\* stored, not fresh; stored differs -> newState replaces it, fresh, whatever
\* the order of the two states in the protocol.
C2_TrackerApply ==
    [][ event'.topic \in IssueTopics
            => LET i == event'.id
                   s == event'.state
                   old == cred_state[i]
               IN  /\ old = None
                        => fresh' /\ cred_state' = [cred_state EXCEPT ![i] = s]
                   /\ old = s
                        => ~fresh' /\ cred_state' = cred_state
                   /\ old \notin {None, s}
                        => fresh' /\ cred_state' = [cred_state EXCEPT ![i] = s] ]_vars

\* a state earlier in the protocol than the stored one was stored as fresh
C2_Witness ==
    /\ event.topic \in IssueTopics
    /\ prior = "backward"
    /\ fresh
    /\ cred_state[event.id] = event.state

\* C4 as claimed: the state recorded for an exchange never moves to a state
\* earlier in the protocol order than the one recorded before.
C4_NeverMovesBack ==
    [][ \A i \in ExIds :
            cred_state[i] # None => Rank(cred_state'[i]) >= Rank(cred_state[i]) ]_vars

\* C4 as amended: the state recorded for an exchange is always the state the
\* last delivered issuance event of that exchange reported, in protocol order
\* or not.
C4_RecordedIsLastReported ==
    \A i \in ExIds : cred_state[i] = reported[i]

\* request_received was recorded for an exchange and a late offer_received
\* moved the record back
C4_Witness ==
    /\ event.topic = "issue_credential"
    /\ event.state = "offer_received"
    /\ prior = "backward"
    /\ cred_state[event.id] = "offer_received"
    /\ reported[event.id] = "offer_received"

(***************************************************************************)
(* Claims about the presentation handlers and the selection                *)
(***************************************************************************)
Range(q) == {q[k] : k \in 1..Len(q)}
Commands == {emitted[k].cmd : k \in 1..Len(emitted)}

\* the handler that ran last has sent a presentation with an attribute-based
\* section (the whole payload in the legacy handler, its "indy" entry in the
\* multi-format one)
SentIndySubmission ==
    /\ event.topic \in ProofTopics
    /\ emitted # << >>
    /\ emitted[Len(emitted)].cmd = "send-presentation"
    /\ event.topic = "present_proof_v2_0" => "indy" \in DOMAIN emitted[Len(emitted)].arg
IndyPart ==
    IF event.topic = "present_proof"
    THEN emitted[Len(emitted)].arg
    ELSE emitted[Len(emitted)].arg["indy"]

\* a held credential lists the referent among its presentation_referents
Matched(r) == \E k \in 1..Len(wallet) : r \in wallet[k].refs
\* the requested attribute referents a held credential lists, in request order
MatchedAttrs == SelectSeq(pres_request.attrs, Matched)

\* C3 as claimed: a present_proof or present_proof_v2_0 event that reports the
\* same exchange id and state as the event just before it emits no
\* send-presentation and no verify-presentation command.
C3_ProofDuplicateEmitsNothing ==
    (event.topic \in ProofTopics /\ repeat)
        => Commands \cap {"send-presentation", "verify-presentation"} = {}

\* C8: in a submission of either handler, the first requested attribute
\* referent (in request order) that a held credential lists is submitted with
\* revealed = false and every later one with revealed = true.
C8_RevealedFlagAsymmetry ==
    SentIndySubmission
        => \A k \in 1..Len(MatchedAttrs) :
              /\ MatchedAttrs[k] \in DOMAIN IndyPart.requested_attributes
              /\ IndyPart.requested_attributes[MatchedAttrs[k]].revealed = (k # 1)

\* three requested attributes, each listed by a held credential, were submitted
\* by the multi-format handler
C8_Witness ==
    /\ SentIndySubmission
    /\ event.topic = "present_proof_v2_0"
    /\ Len(MatchedAttrs) = 3
    /\ Cardinality({r \in DOMAIN IndyPart.requested_attributes :
                        IndyPart.requested_attributes[r].revealed}) = 2

\* C9: in a submission of either handler, a requested attribute referent that
\* no held credential lists is in self_attested_attributes, with the
\* placeholder literal, and not in requested_attributes; one that a held
\* credential lists is in requested_attributes and not in
\* self_attested_attributes.
C9_SelfAttestationFallback ==
    SentIndySubmission
        => \A r \in Range(pres_request.attrs) :
              /\ ~Matched(r) =>
                    /\ r \in DOMAIN IndyPart.self_attested_attributes
                    /\ IndyPart.self_attested_attributes[r] = SelfAttestedValue
                    /\ r \notin DOMAIN IndyPart.requested_attributes
              /\ Matched(r) =>
                    /\ r \in DOMAIN IndyPart.requested_attributes
                    /\ r \notin DOMAIN IndyPart.self_attested_attributes

\* the legacy handler submitted a request of which a first attribute is
\* covered by a credential and a second is not
C9_Witness ==
    /\ SentIndySubmission
    /\ event.topic = "present_proof"
    /\ \E r, q \in Range(pres_request.attrs) :
          /\ Matched(r)
          /\ ~Matched(q)
          /\ q \in DOMAIN IndyPart.self_attested_attributes
          /\ r \in DOMAIN IndyPart.requested_attributes

\* C10 as claimed: no referent is in more than one of the three maps of a
\* submission.
C10_MapsDisjoint ==
    SentIndySubmission
        => /\ DOMAIN IndyPart.requested_attributes
                \cap DOMAIN IndyPart.self_attested_attributes = {}
           /\ DOMAIN IndyPart.requested_attributes
                \cap DOMAIN IndyPart.requested_predicates = {}
           /\ DOMAIN IndyPart.self_attested_attributes
                \cap DOMAIN IndyPart.requested_predicates = {}

\* C10 as amended: self_attested_attributes shares no referent with
\* requested_attributes nor with requested_predicates; requested_attributes and
\* requested_predicates share exactly the referents that the request names
\* both as an attribute and as a predicate and that a held credential lists.
C10_MapsDisjointButSharedNames ==
    SentIndySubmission
        => /\ DOMAIN IndyPart.requested_attributes
                \cap DOMAIN IndyPart.self_attested_attributes = {}
           /\ DOMAIN IndyPart.self_attested_attributes
                \cap DOMAIN IndyPart.requested_predicates = {}
           /\ DOMAIN IndyPart.requested_attributes
                \cap DOMAIN IndyPart.requested_predicates
              = {r \in Range(pres_request.attrs) \cap Range(pres_request.preds) :
                    Matched(r)}

\* a referent requested as attribute and as predicate, held by a credential,
\* is in requested_attributes and in requested_predicates
C10_Witness ==
    /\ SentIndySubmission
    /\ \E r \in Range(pres_request.attrs) \cap Range(pres_request.preds) :
          /\ r \in DOMAIN IndyPart.requested_attributes
          /\ r \in DOMAIN IndyPart.requested_predicates

(***************************************************************************)
(* Connection lifecycle: the readiness future, detect_connection, the      *)
(* connections and connection-reuse handlers, the role declaration         *)
(***************************************************************************)
MaxCycles == 2      \* invitations one agent generates or inputs
MaxTimers == 1      \* sleeps pending at once in one agent
MaxDecls == 2       \* role declarations counted in one cycle
\* connection ids the runtime hands out: the k-th invitation creates record k
ConnIds == 1..MaxCycles
\* values of --endorser-role (agent_container.py 633: author, endorser or
\* none; None when the option is not given); "none" takes line 154
Roles == {None, "author", "endorser", "none"}
\* aries_agent.py 149 and 153: the pauses, in seconds
AuthorDelay == 2
EndorserDelay == 1
TerminalStates == {"completed", "response-sent"}

\* faulty variant: every role pauses as long as the endorser
RoleDelayUniform(role) == EndorserDelay
\* aries_agent.py 146-155: the pause the handler takes before the command
RoleDelay(role) ==
    CASE role = "author" -> AuthorDelay
      [] role = "endorser" -> EndorserDelay
      [] OTHER -> 0
\* aries_agent.py 146-155
connection_job_role(role) ==
    CASE role = "author" -> "TRANSACTION_AUTHOR"
      [] role = "endorser" -> "TRANSACTION_ENDORSER"
      [] OTHER -> "None"

\* the connections events: message.get("state") (None when the event has no
\* such field) and message["rfc23_state"], for each connection record
ConnectionEvents(ids) ==
    { [topic |-> "connections", id |-> c, state |-> p[1], rfc23_state |-> p[2]] :
        c \in ids,
        p \in { << "invitation", "invitation-sent" >>,
                << "invitation", "invitation-received" >>,
                << None, "invitation-received" >>,
                << "response", "response-sent" >>,
                << "active", "completed" >> } }
ConnectionMessages == ConnectionEvents(ConnIds)
\* message["connection_id"] of the two reuse events
ReuseMessages(topic) == { [topic |-> topic, id |-> c] : c \in ConnIds }

\* faulty variant: without the guard of line 124, an empty slot is handled
\* like a future that already has its result
handle_connections_unguarded(cid, ready, role, msg) ==
    LET inviter == IF msg.state = "invitation" THEN msg.id ELSE cid
        tracked == IF inviter = NoConnection
                      /\ msg.rfc23_state = "invitation-received"
                   THEN msg.id
                   ELSE inviter
        terminal == msg.id = tracked /\ msg.rfc23_state \in TerminalStates
    IN  [connection_id |-> tracked,
         connection_ready |-> IF terminal /\ ready # None THEN "done" ELSE ready,
         resolved |-> terminal /\ ready = "pending",
         role_step |-> terminal /\ role # None]
\* faulty variant: without the comparison of line 136, a terminal event of
\* any connection counts
handle_connections_any_id(cid, ready, role, msg) ==
    IF ready = None
    THEN [connection_id |-> cid, connection_ready |-> ready,
          resolved |-> FALSE, role_step |-> FALSE]
    ELSE LET inviter == IF msg.state = "invitation" THEN msg.id ELSE cid
             tracked == IF inviter = NoConnection
                           /\ msg.rfc23_state = "invitation-received"
                        THEN msg.id
                        ELSE inviter
             terminal == msg.rfc23_state \in TerminalStates
         IN  [connection_id |-> tracked,
              connection_ready |-> IF terminal THEN "done" ELSE ready,
              resolved |-> terminal /\ ready = "pending",
              role_step |-> terminal /\ role # None]
\* aries_agent.py 121-141: handle_connections up to the role declaration.
\* ready is the slot _connection_ready: None, "pending" or "done".
handle_connections(cid, ready, role, msg) ==
    IF ready = None
    THEN [connection_id |-> cid, connection_ready |-> ready,
          resolved |-> FALSE, role_step |-> FALSE]
    ELSE LET inviter == IF msg.state = "invitation" THEN msg.id ELSE cid
             tracked == IF inviter = NoConnection
                           /\ msg.rfc23_state = "invitation-received"
                        THEN msg.id
                        ELSE inviter
             terminal == msg.id = tracked /\ msg.rfc23_state \in TerminalStates
         IN  [connection_id |-> tracked,
              connection_ready |-> IF terminal THEN "done" ELSE ready,
              resolved |-> terminal /\ ready = "pending",
              role_step |-> terminal /\ role # None]

\* aries_agent.py 107-112 and 114-119: the two reuse handlers have one body.
\* None has no method done(): line 109 / 116 raises AttributeError.
handle_connection_reuse(cid, ready, msg) ==
    CASE ready = None ->
            [connection_id |-> cid, connection_ready |-> ready,
             resolved |-> FALSE, raised |-> "AttributeError"]
      [] ready = "pending" ->
            [connection_id |-> msg.id, connection_ready |-> "done",
             resolved |-> TRUE, raised |-> "none"]
      [] OTHER ->
            [connection_id |-> cid, connection_ready |-> ready,
             resolved |-> FALSE, raised |-> "none"]

\* bookkeeping of the cycle: how far the events of the new connection were
\* delivered, in their order and with no event of another connection among
\* them (mixed), and how often set_result was called
Observed(c, msg, resolved) ==
    LET opens == /\ msg.topic = "connections"
                 /\ IF c.side = "inviter"
                    THEN msg.state = "invitation"
                    ELSE msg.rfc23_state = "invitation-received"
        closes == /\ msg.topic = "connections"
                  /\ msg.rfc23_state \in TerminalStates
        seen == CASE c.seen \in {"terminal", "mixed"} -> c.seen
                  [] msg.id # c.conn -> "mixed"
                  [] c.seen = "nothing" /\ opens -> "invited"
                  [] c.seen = "invited" /\ closes -> "terminal"
                  [] OTHER -> c.seen
    IN  [c EXCEPT !.seen = seen, !.sets = @ + (IF resolved THEN 1 ELSE 0)]

\* bookkeeping of the cycle: one more set-endorser-role command went out
\* since the last invitation (counted up to MaxDecls)
Declared(c, posted) ==
    IF posted /\ c.decls < MaxDecls THEN [c EXCEPT !.decls = @ + 1] ELSE c

\* a suspended detect_connection caller is released when the future it awaits
\* (the one of invitation number fut) gets its result
Released(w, c, resolved) ==
    IF resolved /\ w.pos = "waiting" /\ w.fut = c.n
    THEN [w EXCEPT !.done = TRUE]
    ELSE w

\* aries_agent.py 160-163
SetRoleCommand(cid, role) ==
    Cmd("set-endorser-role", cid, connection_job_role(role))
\* a command in the record: the handler issued it waited seconds after it
\* observed the terminal state, which is ago seconds back by now
Declaration(agent, role, cid, waited) ==
    [agent |-> agent, role |-> role, conn |-> cid, waited |-> waited,
     ago |-> waited]
\* asyncio.sleep(d): left seconds to go, age seconds gone
Sleep(d) == [left |-> d, age |-> 0]

restVars == << issueVars, proofVars, fresh, prior, repeat, container, inflight >>
RemoveAt(q, i) == SubSeq(q, 1, i - 1) \o SubSeq(q, i + 1, Len(q))
Due(q) == { i \in 1..Len(q) : q[i].left = 0 }
Ages(q) == { q[i].age : i \in 1..Len(q) }
Later(q) == [i \in 1..Len(q) |-> [left |-> q[i].left - 1, age |-> q[i].age + 1]]

\* aries_agent.py 83-89, and the role the agent was started with (line 59)
InitConn ==
    /\ cred_state = [i \in ExIds |-> None]
    /\ cred_attrs = PreparedCredAttrs
    /\ last_credential_received = None
    /\ reported = [i \in ExIds |-> None]
    /\ CallIdle
    /\ ProofIdle
    /\ connection_id = NoConnection
    /\ connection_ready = None
    /\ endorser_role \in Roles
    /\ waiter = NoWaiter
    /\ cycle = NoCycle
    /\ timers = << >>
    /\ peers = NoPeers
    /\ issued = {}
    /\ container = NoContainer
    /\ inflight = NoCalls

\* aries_agent.py 575 and 606: a fresh future replaces whatever the slot held;
\* the runtime then creates the connection record of this invitation
Invite(side, call, command) ==
    /\ cycle.n < MaxCycles
    /\ connection_ready' = "pending"
    /\ cycle' = [n |-> cycle.n + 1, side |-> side, conn |-> cycle.n + 1,
                 seen |-> "nothing", sets |-> 0, returned |-> FALSE,
                 after_return |-> cycle.returned /\ waiter.pos = "idle",
                 decls |-> 0]
    /\ event' = [topic |-> call]
    /\ emitted' = << Cmd(command, cycle.n + 1, "-") >>
    /\ raised' = "none"
    /\ UNCHANGED << connection_id, endorser_role, waiter, timers, peers,
                    issued, restVars >>
\* aries_agent.py 567-603
GenerateInvitation == Invite("inviter", "generate_invitation", "create-invitation")
\* aries_agent.py 605-613
InputInvitation == Invite("invitee", "input_invitation", "receive-invitation")

\* aries_agent.py 91-93, the call: awaiting None raises TypeError, awaiting a
\* future that has its result does not suspend, awaiting a pending one does
DetectConnection ==
    /\ waiter.pos = "idle"
    /\ event' = [topic |-> "detect_connection"]
    /\ emitted' = << >>
    /\ CASE connection_ready = None ->
                /\ raised' = "TypeError"
                /\ UNCHANGED << connection_ready, waiter, cycle >>
         [] connection_ready = "done" ->
                /\ raised' = "none"
                /\ connection_ready' = None
                /\ cycle' = [cycle EXCEPT !.returned = TRUE]
                /\ UNCHANGED waiter
         [] OTHER ->
                /\ raised' = "none"
                /\ waiter' = [pos |-> "waiting", fut |-> cycle.n, done |-> FALSE]
                /\ UNCHANGED << connection_ready, cycle >>
    /\ UNCHANGED << connection_id, endorser_role, timers, peers, issued,
                    restVars >>

\* aries_agent.py 92-93, the resumption: the awaited future has its result,
\* and line 93 clears the slot, whatever it holds by now
DetectConnectionResume ==
    /\ waiter.pos = "waiting"
    /\ waiter.done
    /\ connection_ready' = None
    /\ waiter' = NoWaiter
    /\ cycle' = IF waiter.fut = cycle.n THEN [cycle EXCEPT !.returned = TRUE] ELSE cycle
    /\ event' = [topic |-> "detect_connection"]
    /\ emitted' = << >>
    /\ raised' = "none"
    /\ UNCHANGED << connection_id, endorser_role, timers, peers, issued,
                    restVars >>

\* aries_agent.py 121-163: with the role author or endorser the handler
\* sleeps before the command (SetEndorserRole is its resumption); with any
\* other role it posts at once
HandleConnections ==
    \E msg \in ConnectionMessages, fails \in BOOLEAN :
        LET r == handle_connections(connection_id, connection_ready, endorser_role, msg)
            d == RoleDelay(endorser_role)
            sleeps == r.role_step /\ d > 0
            posts == r.role_step /\ d = 0
        IN  /\ sleeps => Len(timers) < MaxTimers
            /\ fails => posts
            /\ connection_id' = r.connection_id
            /\ connection_ready' = r.connection_ready
            /\ waiter' = Released(waiter, cycle, r.resolved)
            /\ cycle' = Declared(Observed(cycle, msg, r.resolved), posts)
            /\ timers' = IF sleeps
                         THEN Append(timers, Sleep(d))
                         ELSE timers
            /\ emitted' = IF posts
                          THEN << SetRoleCommand(r.connection_id, endorser_role) >>
                          ELSE << >>
            /\ raised' = IF fails THEN "ClientError" ELSE "none"
            /\ event' = msg
            /\ UNCHANGED << endorser_role, peers, issued, restVars >>

\* aries_agent.py 156-163: the sleep is over, the command goes to the
\* connection self.connection_id names by now
SetEndorserRole ==
    \E i \in Due(timers), fails \in BOOLEAN :
        /\ timers' = RemoveAt(timers, i)
        /\ emitted' = << SetRoleCommand(connection_id, endorser_role) >>
        /\ raised' = IF fails THEN "ClientError" ELSE "none"
        /\ event' = [topic |-> "connections_resumed"]
        /\ cycle' = Declared(cycle, TRUE)
        /\ UNCHANGED << connection_id, connection_ready, endorser_role, waiter,
                        peers, issued, restVars >>

ReuseHandler(topic) ==
    \E msg \in ReuseMessages(topic) :
        LET r == handle_connection_reuse(connection_id, connection_ready, msg)
        IN  /\ connection_id' = r.connection_id
            /\ connection_ready' = r.connection_ready
            /\ waiter' = Released(waiter, cycle, r.resolved)
            /\ cycle' = Observed(cycle, msg, r.resolved)
            /\ raised' = r.raised
            /\ emitted' = << >>
            /\ event' = msg
            /\ UNCHANGED << endorser_role, timers, peers, issued, restVars >>
\* aries_agent.py 107-112
HandleConnectionReuse == ReuseHandler("connection_reuse")
\* aries_agent.py 114-119
HandleConnectionReuseAccepted == ReuseHandler("connection_reuse_accepted")

\* a second passes; asyncio.sleep(d) is over d seconds after it began, so
\* time does not pass a sleep that is over before its handler has resumed.
\* The record issued keeps the commands of the handlers that observed the
\* terminal state in the same second as a handler that is still asleep.
Tick ==
    /\ Due(timers) = {}
    /\ \A p \in PeerNames : Due(peers[p].timers) = {}
    /\ timers' = Later(timers)
    /\ peers' = [p \in PeerNames |-> [peers[p] EXCEPT !.timers = Later(@)]]
    /\ issued' = { [x EXCEPT !.ago = @ + 1] :
                        x \in { y \in issued :
                                  \E p \in PeerNames : y.ago \in Ages(peers[p].timers) } }
    /\ UNCHANGED << connection_id, connection_ready, endorser_role, waiter,
                    cycle, callVars, issueVars, proofVars, container, inflight >>

NextConn ==
    \/ GenerateInvitation
    \/ InputInvitation
    \/ DetectConnection
    \/ DetectConnectionResume
    \/ HandleConnections
    \/ SetEndorserRole
    \/ HandleConnectionReuse
    \/ HandleConnectionReuseAccepted
    \/ Tick
SpecConn == InitConn /\ [][NextConn]_vars

(***************************************************************************)
(* Role declaration: two agents with endorser roles at the two ends of a   *)
(* connection, each running handle_connections on its own event feed       *)
(***************************************************************************)
\* p1 was started with --endorser-role author, p2 with endorser
InitRole ==
    /\ cred_state = [i \in ExIds |-> None]
    /\ cred_attrs = PreparedCredAttrs
    /\ last_credential_received = None
    /\ reported = [i \in ExIds |-> None]
    /\ CallIdle
    /\ ProofIdle
    /\ connection_id = NoConnection
    /\ connection_ready = None
    /\ endorser_role = None
    /\ waiter = NoWaiter
    /\ cycle = NoCycle
    /\ timers = << >>
    /\ peers = [p \in PeerNames |->
                    NewAgent(IF p = "p1" THEN "author" ELSE "endorser")]
    /\ issued = {}
    /\ container = NoContainer
    /\ inflight = NoCalls

\* the events of the two feeds: about the connection between the two agents (1)
\* and about one other connection (2)
PeerConnectionMessages == ConnectionEvents({1, 2})

selfVars == << connection_id, connection_ready, endorser_role, waiter, cycle,
               timers, callVars, issueVars, proofVars, container, inflight >>

\* aries_agent.py 575 / 606, in one of the two: a fresh pending future
PeerInvitation ==
    \E p \in PeerNames :
        /\ peers[p].connection_ready # "pending"
        /\ peers' = [peers EXCEPT ![p].connection_ready = "pending"]
        /\ UNCHANGED << issued, selfVars >>

\* aries_agent.py 121-163, in one of the two
PeerHandleConnections ==
    \E p \in PeerNames, msg \in PeerConnectionMessages :
        LET a == peers[p]
            r == handle_connections(a.connection_id, a.connection_ready,
                                    a.endorser_role, msg)
            d == RoleDelay(a.endorser_role)
            sleeps == r.role_step /\ d > 0
            posts == r.role_step /\ d = 0
        IN  /\ sleeps => Len(a.timers) < MaxTimers
            /\ peers' = [peers EXCEPT ![p] =
                            [a EXCEPT !.connection_id = r.connection_id,
                                      !.connection_ready = r.connection_ready,
                                      !.timers = IF sleeps THEN Append(@, Sleep(d)) ELSE @]]
            /\ issued' = IF posts
                         THEN issued \cup {Declaration(p, a.endorser_role,
                                                       r.connection_id, 0)}
                         ELSE issued
            /\ UNCHANGED selfVars

\* aries_agent.py 156-163, in one of the two
PeerSetEndorserRole ==
    \E p \in PeerNames :
        \E i \in Due(peers[p].timers) :
            /\ peers' = [peers EXCEPT ![p].timers = RemoveAt(@, i)]
            /\ issued' = issued \cup {Declaration(p, peers[p].endorser_role,
                                                  peers[p].connection_id,
                                                  peers[p].timers[i].age)}
            /\ UNCHANGED selfVars

NextRole ==
    \/ PeerInvitation
    \/ PeerHandleConnections
    \/ PeerSetEndorserRole
    \/ Tick
SpecRole == InitRole /\ [][NextRole]_vars

(***************************************************************************)
(* Claims about the connection lifecycle                                   *)
(***************************************************************************)
\* the last event handled reports a terminal state of the tracked connection
TerminalObservation(e) ==
    /\ e.topic \in {"connections", "connection_reuse", "connection_reuse_accepted"}
    /\ e.id = connection_id
    /\ e.topic = "connections" => e.rfc23_state \in TerminalStates

\* C5: after an invitation was generated or input, the terminal observations
\* of the tracked connection (connections events with rfc23_state completed or
\* response-sent, connection_reuse, connection_reuse_accepted) have set the
\* result of the readiness future exactly once in the cycle, and none of them
\* raises (ClientError is the failure of the admin call, not of the
\* observation)
C5_ReadinessResolvesOnce ==
    (cycle.n >= 1 /\ TerminalObservation(event)) =>
        /\ cycle.sets = 1
        /\ raised \in {"none", "ClientError"}

\* C6: the handle serves a further connection cycle: when detect_connection
\* has returned and a new invitation was generated or input, the delivery of
\* the new connection's events up to a terminal state has given the new
\* readiness future its result, which lets the next detect_connection return
C6_LaterCycleResolves ==
    (cycle.after_return /\ cycle.seen = "terminal") => cycle.sets >= 1

\* C7: when the author's command is issued, the command of every endorser at
\* the other end that observed the terminal state in the same second (of the
\* same connection or of any other) was issued before, after a strictly
\* shorter wait, and none is still to come
C7_EndorserDeclaresFirst ==
    \A a \in issued :
        a.role = "author" =>
            /\ \A e \in issued :
                   (e.role = "endorser" /\ e.agent # a.agent /\ e.ago = a.ago)
                       => e.waited < a.waited
            /\ \A p \in PeerNames \ {a.agent} :
                   peers[p].endorser_role = "endorser"
                       => a.ago \notin Ages(peers[p].timers)
\* both commands were issued for one connection after the two agents observed
\* its terminal state in the same second
C7_Witness ==
    \E a \in issued, e \in issued :
        /\ a.role = "author"
        /\ e.role = "endorser"
        /\ a.agent # e.agent
        /\ a.conn = e.conn
        /\ a.ago = e.ago
        /\ a.waited = AuthorDelay
        /\ e.waited = EndorserDelay

(***************************************************************************)
(* The selection on wallets that mix credentials with and without a        *)
(* timestamp and linked-data records, and on input descriptors with more   *)
(* than one schema URI                                                      *)
(***************************************************************************)
PickRows ==
    { IndyRow(100, {"a", "b"}), IndyRow(200, {"a", "b"}), IndyRow(100, {"a"}),
      IndyRowNoTimestamp({"b"}),
      DifRow(1, << TypeVC >>), DifRow(2, << TypeVC >>), DifRow(2, << TypePR >>) }
\* input_descriptors with one or two schema URIs
PickDescriptors ==
    { << [id |-> "d1", uris |-> << UriVC >>] >>,
      << [id |-> "d1", uris |-> << UriVC, UriPR >>] >>,
      << [id |-> "d1", uris |-> << UriPR, UriVC >>],
         [id |-> "d2", uris |-> << UriPR >>] >> }
PickRequests ==
    { [attrs |-> << "a", "b" >>, preds |-> << >>, descriptors |-> d] :
        d \in PickDescriptors }

InitPick ==
    /\ pres_request \in PickRequests
    /\ wallet \in SeqsUpTo(PickRows, MaxCreds + 1)
    /\ last_proof_received = None
    /\ CallIdle
    /\ IssueIdle
    /\ ConnIdle

\* a request-received event whose request has a linked-data section only
SelectV2Dif ==
    /\ event = NoEvent
    /\ DeliverPresentProofV2(
        [topic |-> "present_proof_v2_0", id |-> 1, state |-> "request-received",
         indy |-> FALSE, dif |-> TRUE], {}, "true")

NextPick ==
    \/ SelectLegacy
    \/ SelectV2
    \/ SelectV2Dif

SpecPick == InitPick /\ [][NextPick]_vars

(***************************************************************************)
(* Claims about the choice among several held credentials                  *)
(***************************************************************************)
\* the credential (its place in the wallet's list) a submission binds to r
BoundTo(r) ==
    IF r \in DOMAIN IndyPart.requested_attributes
    THEN IndyPart.requested_attributes[r].cred_id
    ELSE IndyPart.requested_predicates[r].cred_id

\* C11 as claimed: in a submission of either handler, the credential bound
\* to a referent has the greatest timestamp among the held attribute-based
\* credentials that list the referent (stated of the credentials that carry
\* a timestamp)
C11_NewestCredentialBound ==
    SentIndySubmission
        => \A r \in DOMAIN IndyPart.requested_attributes
                        \cup DOMAIN IndyPart.requested_predicates :
              \A j \in 1..Len(wallet) :
                  ( /\ wallet[j].kind = "indy"
                    /\ r \in wallet[j].refs
                    /\ wallet[j].has_ts
                    /\ wallet[BoundTo(r)].has_ts )
                      => wallet[BoundTo(r)].ts >= wallet[j].ts

\* the last handler call sent a presentation with a linked-data section
SentDifSubmission ==
    /\ event.topic = "present_proof_v2_0"
    /\ emitted # << >>
    /\ emitted[Len(emitted)].cmd = "send-presentation"
    /\ "dif" \in DOMAIN emitted[Len(emitted)].arg
DifPart == emitted[Len(emitted)].arg["dif"]
\* the held linked-data credentials one of whose type tags is a substring of
\* one of the descriptor's schema URIs, at whatever position
MatchingAnyUri(d) ==
    { k \in 1..Len(wallet) :
        /\ wallet[k].kind = "dif"
        /\ \E u \in Range(d.uris), t \in Range(wallet[k].types) : IsSubstring(t, u) }
\* the first of them in issuance-date-descending order
FirstByDate(K) ==
    CHOOSE k \in K :
        \A j \in K : \/ wallet[k].date > wallet[j].date
                      \/ (wallet[k].date = wallet[j].date /\ k <= j)

\* C12 as claimed: in the linked-data section, an input descriptor is bound
\* to a credential exactly when a type tag of the credential is a substring
\* of any of the descriptor's schema URIs, whatever the URI's position, and
\* it is bound to the record id of the first such credential in
\* issuance-date-descending order
C12_AnyUriFirstByDate ==
    SentDifSubmission
        => \A d \in Range(pres_request.descriptors) :
              IF MatchingAnyUri(d) = {}
              THEN d.id \notin DOMAIN DifPart.record_ids
              ELSE /\ d.id \in DOMAIN DifPart.record_ids
                   /\ DifPart.record_ids[d.id] = << FirstByDate(MatchingAnyUri(d)) >>

\* the credentials (places in the wallet's list) the two sections bind
IndyBound ==
    { IndyPart.requested_attributes[r].cred_id :
        r \in DOMAIN IndyPart.requested_attributes }
    \cup { IndyPart.requested_predicates[r].cred_id :
             r \in DOMAIN IndyPart.requested_predicates }
DifBound ==
    UNION { Range(DifPart.record_ids[d]) : d \in DOMAIN DifPart.record_ids }

\* C13 as claimed: a request-received event whose request has both an indy
\* and a dif section, with no admin call failing, ends in one
\* send-presentation whose payload has both sections, the indy section
\* binding attribute-based credentials only and the dif section linked-data
\* credentials only, whatever the wallet returned
C13_BothSectionsMerged ==
    ( /\ event.topic = "present_proof_v2_0"
      /\ event.state = "request-received"
      /\ event.indy /\ event.dif )
        => /\ SentIndySubmission
           /\ SentDifSubmission
           /\ \A k \in IndyBound : wallet[k].kind = "indy"
           /\ \A k \in DifBound : wallet[k].kind = "dif"

(***************************************************************************)
(* Claims about repeated runs of the selection                             *)
(***************************************************************************)
\* the last handler call sent a presentation; its payload
SentSubmission ==
    /\ event.topic \in ProofTopics
    /\ emitted # << >>
    /\ emitted[Len(emitted)].cmd = "send-presentation"
Payload == emitted[Len(emitted)].arg
\* two handler calls in a row ran the same selection: the same handler on a
\* request with the same sections, and the same credential fetches succeeded
SameSelection ==
    /\ SentSubmission
    /\ SentSubmission'
    /\ event'.topic = event.topic
    /\ event.topic = "present_proof_v2_0"
          => /\ event'.indy = event.indy
             /\ event'.dif = event.dif
             /\ DOMAIN Payload' = DOMAIN Payload

CRED_FORMAT_INDY == "indy"
CRED_FORMAT_JSON_LD == "json-ld"
\* values of --cred-type: the two formats, another string, and None for a
\* parser without the option (arg_parser, agent_container.py 593-600)
CredTypes == {CRED_FORMAT_INDY, CRED_FORMAT_JSON_LD, "other", None}
\* values of --aip (a string the parser does not restrict, line 601-607)
AipValues == {10, 20, 30}
\* the parsed command line, as far as create_agent_with_args reads it; an
\* option the parser does not define counts as not given
ArgSets ==
    [did_exchange : BOOLEAN, mediation : BOOLEAN, revocation : BOOLEAN,
     multi_ledger : BOOLEAN, aip : AipValues, cred_type : CredTypes,
     public_did : BOOLEAN, reuse_connections : BOOLEAN,
     endorser_role : {None, "author"}]

\* what an operation of the container leaves behind: the network calls it
\* made, in order, the exception that left it, and the container
ContainerOutcome(calls, exc, c) == [calls |-> calls, raised |-> exc, container |-> c]

\* agent_container.py 48-100: the constructor; an endorser role forces a
\* public DID and the indy format (93-97)
AgentContainerInit(args, cred_type, public_did, aip, reuse) ==
    LET role == args.endorser_role \in {"author", "endorser"}
    IN  [created |-> TRUE,
         cred_type |-> IF role THEN CRED_FORMAT_INDY ELSE cred_type,
         revocation |-> args.revocation,
         public_did |-> IF role THEN TRUE ELSE public_did,
         aip |-> aip,
         use_did_exchange |-> (aip = 20),
         mediation |-> args.mediation,
         reuse_connections |-> reuse]

\* default_genesis_txns (runners/support/agent.py): the fetch of the ledger's
\* genesis transactions
default_genesis_txns == Cmd("genesis-fetch", 0, "-")
\* agent_container.py 676-771.  genesis is what default_genesis_txns returns
\* (the ledger's genesis transactions, or None).  check_requires (line 682)
\* inspects the local installation only.  The tails server url is guessed
\* when missing (698-702), so the test of line 704 never fires.
create_agent_with_args(args, genesis) ==
    LET fetch == IF args.multi_ledger
                 THEN << >>
                 ELSE << default_genesis_txns >>
        aip == IF args.cred_type \notin {None, CRED_FORMAT_INDY} THEN 20 ELSE args.aip
        public_did == IF args.cred_type = None
                      THEN args.public_did
                      ELSE args.cred_type = CRED_FORMAT_INDY
    IN  IF args.did_exchange /\ args.mediation
        THEN ContainerOutcome(<< >>, "Exception", NoContainer)
        ELSE IF ~args.multi_ledger /\ genesis = None
        THEN ContainerOutcome(fetch, "SystemExit", NoContainer)
        ELSE IF args.aip \notin {10, 20}
        THEN ContainerOutcome(fetch, "Exception", NoContainer)
        ELSE IF args.reuse_connections /\ aip # 20
        THEN ContainerOutcome(fetch, "Exception", NoContainer)
        ELSE ContainerOutcome(fetch, "none",
                AgentContainerInit(args, args.cred_type, public_did, aip,
                                   args.reuse_connections))

\* agent_container.py 245-264.  fails: the admin call ends in ClientError
create_schema_and_cred_def(c, fails) ==
    IF ~c.public_did
    THEN ContainerOutcome(<< >>, "Exception", c)
    ELSE IF c.cred_type = CRED_FORMAT_INDY
    THEN ContainerOutcome(<< Cmd("create-schema-and-cred-def", 0, c.revocation) >>,
                          IF fails THEN "ClientError" ELSE "none", c)
    ELSE IF c.cred_type = CRED_FORMAT_JSON_LD
    THEN ContainerOutcome(<< >>, "none", c)
    ELSE ContainerOutcome(<< >>, "Exception", c)

\* agent_container.py 266-298
issue_credential(c, fails) ==
    IF c.cred_type = CRED_FORMAT_INDY
    THEN ContainerOutcome(<< Cmd("send-offer", 0, "-") >>,
                          IF fails THEN "ClientError" ELSE "none", c)
    ELSE IF c.cred_type = CRED_FORMAT_JSON_LD
    THEN ContainerOutcome(<< >>, "none", c)
    ELSE ContainerOutcome(<< >>, "Exception", c)

\* a non_revoked entry of a proof request is "absent", "supplied" (the
\* interval the caller gave) or "now" (the interval {"to": now} of line 348)
Referents == {"r1", "r2"}
\* the proof requests a caller hands to request_proof: non_revoked (or not)
\* at the request level and on each referent
ProofRequestsIn ==
    UNION { [non_revoked : {"absent", "supplied"},
             requested_attributes : [A -> {"absent", "supplied"}],
             requested_predicates : [P -> {"absent", "supplied"}]] :
            A \in SUBSET Referents, P \in SUBSET {"p1"} }

\* faulty variant: the interval is plugged in on every referent
PlugInEverywhere(referents) == [r \in DOMAIN referents |-> "now"]
\* agent_container.py 352-356 / 358-362: the interval is plugged in where
\* the supplied request has one
PlugIn(referents) ==
    [r \in DOMAIN referents |-> IF referents[r] # "absent" THEN "now" ELSE "absent"]
\* faulty variant: the referents are left as supplied
StripNothing(referents) == referents
\* agent_container.py 373-375 / 376-378: non_revoked is deleted from each
\* referent
Strip(referents) == [r \in DOMAIN referents |-> "absent"]

\* agent_container.py 330-401.  indy_proof_request holds the very dicts
\* requested_attributes and requested_predicates of the supplied request
\* (341-342), so an edit of a referent shows in both; the request-level
\* entry is the new dict's own.  The result also carries the supplied
\* request as the call leaves it.
request_proof(c, proof_request, explicit_revoc_required, fails) ==
    LET supplied ==
            \/ proof_request.non_revoked # "absent"
            \/ \E r \in DOMAIN proof_request.requested_attributes :
                    proof_request.requested_attributes[r] # "absent"
            \/ \E r \in DOMAIN proof_request.requested_predicates :
                    proof_request.requested_predicates[r] # "absent"
        attrs == IF c.revocation
                 THEN PlugIn(proof_request.requested_attributes)
                 ELSE Strip(proof_request.requested_attributes)
        preds == IF c.revocation
                 THEN PlugIn(proof_request.requested_predicates)
                 ELSE Strip(proof_request.requested_predicates)
        level == IF c.revocation
                    /\ (\/ proof_request.non_revoked # "absent"
                        \/ (~supplied /\ ~explicit_revoc_required))
                 THEN "now"
                 ELSE "absent"
        indy_proof_request ==
            [non_revoked |-> level, requested_attributes |-> attrs,
             requested_predicates |-> preds]
        left == [non_revoked |-> IF c.revocation
                                 THEN proof_request.non_revoked
                                 ELSE "absent",
                 requested_attributes |-> attrs,
                 requested_predicates |-> preds]
        Result(calls, exc, request) ==
            [calls |-> calls, raised |-> exc, container |-> c,
             proof_request |-> request]
    IN  IF c.cred_type = CRED_FORMAT_INDY
        THEN Result(<< Cmd("send-proof-request", 0, indy_proof_request) >>,
                    IF fails THEN "ClientError" ELSE "none", left)
        ELSE IF c.cred_type = CRED_FORMAT_JSON_LD
        THEN Result(<< >>, "none", proof_request)
        ELSE Result(<< >>, "Exception", proof_request)

\* ---- SpecContainer: a container is created from a command line, then a
\* runner calls its operations, on every supplied proof request
InitContainer ==
    /\ container = NoContainer
    /\ inflight = NoCalls
    /\ cred_state = [i \in ExIds |-> None]
    /\ cred_attrs = PreparedCredAttrs
    /\ last_credential_received = None
    /\ reported = [i \in ExIds |-> None]
    /\ CallIdle
    /\ ProofIdle
    /\ connection_id = NoConnection
    /\ connection_ready = None
    /\ endorser_role = None
    /\ waiter = NoWaiter
    /\ cycle = NoCycle
    /\ timers = << >>
    /\ peers = NoPeers
    /\ issued = {}

\* what no operation of the container touches
agentVars ==
    << issueVars, wallet, last_proof_received, connection_id, connection_ready,
       endorser_role, waiter, cycle, timers, peers, issued, fresh, prior, repeat,
       inflight >>

\* one call of an operation: what it leaves in the call history
Called(op, input, r) ==
    /\ event' = [topic |-> op, input |-> input]
    /\ emitted' = r.calls
    /\ raised' = r.raised
    /\ container' = r.container

\* the runner creates its container once, at startup (issuer.py 189)
CreateAgentWithArgs ==
    /\ event = NoEvent
    /\ ~container.created
    /\ \E args \in ArgSets, genesis \in {"genesis", None} :
            Called("create_agent_with_args", args, create_agent_with_args(args, genesis))
    /\ UNCHANGED << pres_request, agentVars >>

CreateSchemaAndCredDef ==
    /\ container.created
    /\ \E fails \in BOOLEAN :
            Called("create_schema_and_cred_def", "-",
                   create_schema_and_cred_def(container, fails))
    /\ UNCHANGED << pres_request, agentVars >>

IssueCredential ==
    /\ container.created
    /\ \E fails \in BOOLEAN :
            Called("issue_credential", "-", issue_credential(container, fails))
    /\ UNCHANGED << pres_request, agentVars >>

RequestProof ==
    /\ container.created
    /\ \E proof_request \in ProofRequestsIn, explicit \in BOOLEAN, fails \in BOOLEAN :
            LET r == request_proof(container, proof_request, explicit, fails)
            IN  /\ Called("request_proof",
                          [non_revoked |-> proof_request.non_revoked,
                           requested_attributes |-> proof_request.requested_attributes,
                           requested_predicates |-> proof_request.requested_predicates,
                           explicit_revoc_required |-> explicit], r)
                /\ pres_request' = r.proof_request
    /\ UNCHANGED agentVars

NextContainer ==
    \/ CreateAgentWithArgs
    \/ CreateSchemaAndCredDef
    \/ IssueCredential
    \/ RequestProof

SpecContainer == InitContainer /\ [][NextContainer]_vars

(***************************************************************************)
(* Claims about the AgentContainer                                         *)
(***************************************************************************)
\* the last operation was request_proof and it sent a proof request
SentProofRequest ==
    /\ event.topic = "request_proof"
    /\ emitted # << >>
    /\ emitted[1].cmd = "send-proof-request"
\* the indy proof request it sent
Outbound == emitted[1].arg

\* C15: when the container's revocation is disabled, the proof request that
\* request_proof sends has no non_revoked entry at the request level nor on
\* any requested attribute or predicate, whatever the supplied request
\* carried
C15_NoNonRevokedLeaks ==
    (SentProofRequest /\ ~container.revocation)
        => /\ Outbound.non_revoked = "absent"
           /\ \A r \in DOMAIN Outbound.requested_attributes :
                 Outbound.requested_attributes[r] = "absent"
           /\ \A r \in DOMAIN Outbound.requested_predicates :
                 Outbound.requested_predicates[r] = "absent"
\* a request supplied with non_revoked at the three places was sent by a
\* container without revocation
C15_Witness ==
    /\ SentProofRequest
    /\ ~container.revocation
    /\ event.input.non_revoked = "supplied"
    /\ \E r \in DOMAIN event.input.requested_attributes :
          event.input.requested_attributes[r] = "supplied"
    /\ \E r \in DOMAIN event.input.requested_predicates :
          event.input.requested_predicates[r] = "supplied"
    /\ DOMAIN Outbound.requested_attributes = Referents

\* the last operation ended in a configuration error
ConfigurationError ==
    /\ event.topic \in {"create_agent_with_args", "create_schema_and_cred_def",
                        "issue_credential", "request_proof"}
    /\ raised = "Exception"

\* C20 as claimed: an operation that ends in a configuration error (aip not
\* 10 or 20, reuse-connections with an aip other than 20, did-exchange with
\* mediation, unknown credential type, schema creation without public DID)
\* has made no network call, neither the genesis fetch nor an admin command
C20_ConfigurationErrorBeforeNetwork ==
    ConfigurationError => emitted = << >>

(***************************************************************************)
(* Claims about the multi-format offer                                     *)
(***************************************************************************)
\* the handler that ran last took a multi-format offer-received event past
\* the tracker
FreshOffer ==
    /\ event.topic = "issue_credential_v2_0"
    /\ event.state = "offer-received"
    /\ fresh

\* C16: a fresh offer-received event whose by_format.cred_offer has the indy
\* key (with or without the ld_proof key) causes exactly one send-request
\* for its cred_ex_id and no key creation
C16_IndyOfferOneRequest ==
    (FreshOffer /\ event.cred_offer \in {"indy", "both"})
        => emitted = << Cmd("send-request", event.id, "-") >>
\* an offer with both keys was answered
C16_Witness ==
    /\ FreshOffer
    /\ event.cred_offer = "both"
    /\ raised = "none"

\* C17: a fresh offer-received event whose by_format.cred_offer has ld_proof
\* and no indy causes one key creation first; when the key creation has
\* returned, one send-request follows whose holder_did is the DID returned;
\* when the key creation fails, no send-request is emitted
C17_LdProofKeyThenRequest ==
    (FreshOffer /\ event.cred_offer = "ld_proof")
        => /\ emitted # << >>
           /\ emitted[1].cmd = "create-did"
           /\ IF emitted[1].result = None
              THEN emitted = << emitted[1] >>
              ELSE /\ emitted[1].result \in HolderDids
                   /\ emitted = << emitted[1],
                                   Cmd("send-request", event.id, emitted[1].result) >>
\* a linked-data offer was answered with the second of the DIDs
C17_Witness ==
    /\ FreshOffer
    /\ event.cred_offer = "ld_proof"
    /\ Len(emitted) = 2
    /\ emitted[2].arg = "did:key:2"

(***************************************************************************)
(* Claims about failures and abandoned exchanges                           *)
(***************************************************************************)
\* C18 as claimed: a transport failure (ClientError) of an admin command is
\* caught inside the handler that issued it: no handler call ends by raising
\* ClientError, and no command follows a failed one, so a multi-format
\* submission is sent only with the section of every format whose
\* credential fetch was issued
C18_TransportFailureEndsHandler ==
    /\ raised # "ClientError"
    /\ (SentSubmission /\ event.topic = "present_proof_v2_0")
          => /\ event.indy => "indy" \in DOMAIN Payload
             /\ event.dif => "dif" \in DOMAIN Payload

PresentationReceived ==
    /\ event.topic \in ProofTopics
    /\ event.state \in {"presentation_received", "presentation-received"}

\* C21 as claimed: in both presentation machines a presentation-received
\* event emits exactly one verify-presentation command and, when the command
\* has returned, last_proof_received holds the verified result it returned
C21_VerifiedResultRecorded ==
    PresentationReceived
        => /\ Len(emitted) = 1
           /\ emitted[1].cmd = "verify-presentation"
           /\ emitted[1].id = event.id
           /\ raised = "none" => last_proof_received = emitted[1].result

(***************************************************************************)
(* Claims about failing commands                                           *)
(***************************************************************************)
\* C22 as claimed: when the admin command emitted for a newly reported state
\* of an exchange fails, the tracker keeps what it held before the event
\* (the state whose command failed is not recorded), so that the same event,
\* delivered again, is fresh
C22_FailedStateNotRecorded ==
    [][ (event'.topic \in IssueTopics /\ fresh' /\ raised' = "ClientError")
            => cred_state' = cred_state ]_vars

\* C23 as claimed: in both presentation machines, a request-received event
\* whose credential fetch fails with a transport error emits no
\* send-presentation command
C23_FailedFetchSendsNothing ==
    ( /\ event.topic \in ProofTopics
      /\ \E k \in 1..Len(emitted) :
            emitted[k].cmd = "fetch-credentials" /\ emitted[k].result = None )
        => "send-presentation" \notin Commands

(***************************************************************************)
(* Claims about the non-revocation interval of a proof request             *)
(***************************************************************************)
\* the arguments of the request_proof call that ran last
Supplied == event.input
\* a referent of the supplied request carries non_revoked
ReferentSupplied ==
    \/ \E r \in DOMAIN Supplied.requested_attributes :
          Supplied.requested_attributes[r] # "absent"
    \/ \E r \in DOMAIN Supplied.requested_predicates :
          Supplied.requested_predicates[r] # "absent"
\* the referents of the sent request carry the interval where the supplied
\* request carried non_revoked, and nowhere else
PerReferentAsSupplied ==
    /\ \A r \in DOMAIN Outbound.requested_attributes :
          Outbound.requested_attributes[r] # "absent"
              <=> Supplied.requested_attributes[r] # "absent"
    /\ \A r \in DOMAIN Outbound.requested_predicates :
          Outbound.requested_predicates[r] # "absent"
              <=> Supplied.requested_predicates[r] # "absent"

\* C24 as claimed: with revocation enabled, the request sent carries a
\* request-level non_revoked only when no referent of the supplied request
\* carries its own non_revoked and explicit_revoc_required was not passed;
\* the referents carry the interval exactly where the supplied request did
C24_GlobalOnlyWithoutReferents ==
    (SentProofRequest /\ container.revocation)
        => /\ Outbound.non_revoked # "absent"
                => (~ReferentSupplied /\ ~Supplied.explicit_revoc_required)
           /\ PerReferentAsSupplied
\* C24 amended: with revocation enabled, the request sent carries a
\* request-level non_revoked exactly when the supplied request carries one
\* at the request level, or when the supplied request carries none anywhere
\* and explicit_revoc_required was not passed; the referents carry the
\* interval exactly where the supplied request did
C24_GlobalWhenSuppliedOrNothing ==
    (SentProofRequest /\ container.revocation)
        => /\ Outbound.non_revoked # "absent"
                <=> \/ Supplied.non_revoked # "absent"
                    \/ /\ Supplied.non_revoked = "absent"
                       /\ ~ReferentSupplied
                       /\ ~Supplied.explicit_revoc_required
           /\ PerReferentAsSupplied
\* a request with non_revoked on one of two attributes and on nothing else
\* was sent with explicit_revoc_required
C24_Witness ==
    /\ SentProofRequest
    /\ container.revocation
    /\ Supplied.explicit_revoc_required
    /\ Supplied.non_revoked = "absent"
    /\ DOMAIN Supplied.requested_attributes = Referents
    /\ \E r \in Referents : Supplied.requested_attributes[r] = "absent"
    /\ \E r \in Referents : Outbound.requested_attributes[r] = "now"

(***************************************************************************)
(* C25: the steps of the legacy issuance machine                           *)
(***************************************************************************)
\* the event at hand is a fresh event of the legacy issuance topic
FreshLegacyEvent == event.topic = "issue_credential" /\ fresh
\* the commands the claim gives the state of the event at hand
LegacyStepCommands ==
    CASE event.state = "offer_received" ->
            << Cmd("send-request", event.id, "-") >>
      [] event.state = "request_received" ->
            << [cmd |-> "issue", id |-> event.id,
                arg |-> IF event.credential_definition_id \in DOMAIN cred_attrs
                        THEN cred_attrs[event.credential_definition_id]
                        ELSE << >>] >>
      [] event.state = "credential_acked" ->
            << Cmd("fetch-credential", event.id, event.credential_id) >>
      [] OTHER -> << >>
\* C25: a fresh issue_credential event emits exactly the commands of its
\* state: offer_received one send-request, request_received one issue whose
\* preview lists the attribute pairs prepared for the event's
\* credential_definition_id, credential_acked one fetch of the stored
\* credential, abandoned none
C25_LegacyStepMap ==
    (FreshLegacyEvent
        /\ event.state \in {"offer_received", "request_received",
                            "credential_acked", "abandoned"})
        => emitted = LegacyStepCommands

(***************************************************************************)
(* C26: the steps of the multi-format issuance machine                     *)
(***************************************************************************)
DetailTopics == {"issue_credential_v2_0_indy", "issue_credential_v2_0_ld_proof"}
\* the step just taken handled a fresh event of the multi-format topic
FreshV2Step == event'.topic = "issue_credential_v2_0" /\ fresh'
\* what a detail event emits, by the event alone
DetailCommands(e) ==
    IF e.topic = "issue_credential_v2_0_indy" /\ e.cred_id_stored # None
    THEN << Cmd("fetch-credential", "-", e.cred_id_stored) >>
    ELSE << >>
V2StepMap ==
    /\ (FreshV2Step /\ event'.state = "request-received")
            => emitted' = << Cmd("issue", event'.id, "-") >>
    /\ (FreshV2Step /\ event'.state \in {"done", "abandoned"})
            => emitted' = << >>
    /\ event'.topic \in DetailTopics
            => /\ cred_state' = cred_state
               /\ emitted' = DetailCommands(event')
\* C26: a fresh request-received event of the multi-format machine emits
\* exactly one issue command, with no attribute lookup; fresh done and
\* abandoned events emit nothing; a detail event leaves cred_state as it was
\* and what it emits is given by the event alone
C26_V2StepMap == [][V2StepMap]_vars
\* a fresh request-received event emitted its one issue command while the
\* other exchange is done
C26_Witness ==
    /\ event.topic = "issue_credential_v2_0"
    /\ event.state = "request-received"
    /\ fresh
    /\ emitted = << Cmd("issue", event.id, "-") >>
    /\ \E i \in ExIds : i # event.id /\ cred_state[i] = "done"

(***************************************************************************)
(* C27: who writes last_credential_received                                *)
(***************************************************************************)
\* the step just taken handled an indy detail event naming a stored
\* credential
StoredCredentialStep ==
    /\ event'.topic = "issue_credential_v2_0_indy"
    /\ event'.cred_id_stored # None
LastCredentialFrame ==
    /\ last_credential_received' # last_credential_received
            => StoredCredentialStep
    /\ (StoredCredentialStep /\ raised' = "none")
            => last_credential_received' = event'.cred_id_stored
\* C27: last_credential_received changes only in a step of the indy detail
\* handler on an event that carries cred_id_stored, and such a step whose
\* fetch returned leaves it set to the credential fetched; the ld_proof
\* detail event, the state events of both machines and an indy detail event
\* without cred_id_stored leave it as it was
C27_LastCredentialFrame == [][LastCredentialFrame]_vars
\* the indy detail event of a stored credential replaced the marker's value
\* after both machines handled state events
C27_Witness ==
    /\ event.topic = "issue_credential_v2_0_indy"
    /\ event.cred_id_stored = "cred2"
    /\ last_credential_received = "cred2"
    /\ raised = "none"
    /\ \E i \in ExIds : cred_state[i] = "credential_acked"
    /\ \E i \in ExIds : cred_state[i] = "done"

(***************************************************************************)
(* C28: who declares an endorsement role                                   *)
(***************************************************************************)
RoleDeclared == \E k \in 1..Len(emitted) : emitted[k].cmd = "set-endorser-role"
\* C28: a set-endorser-role command is emitted only by an agent whose
\* endorser role is author or endorser; an agent started with no role or
\* with the value none emits none
C28_RoleOnlyForParticipants ==
    RoleDeclared => endorser_role \in {"author", "endorser"}

(***************************************************************************)
(* Handlers that interleave: each await of an admin call is a point where  *)
(* the handler is suspended and the handler of another event may run       *)
(***************************************************************************)
MaxDeliveries == 2      \* events delivered to the issuance handlers
\* the request of a command, as it goes out before the response is known
Request(c) == Cmd(c.cmd, c.id, c.arg)
\* the commands the handler of msg issues after the tracker, when the call
\* number failAt fails (0: none) and the wallet returns did for a new key
PlanOf(msg, failAt, did) ==
    IF msg.topic = "issue_credential"
    THEN IssueCredentialBranch(cred_state, cred_attrs, msg, failAt)
    ELSE IssueCredentialV2Branch(cred_state, msg, failAt, did)

asyncFixed == << cred_attrs, proofVars, connection_id, connection_ready,
                 endorser_role, waiter, cycle, timers, peers, issued, container,
                 prior, repeat >>
asyncRest == << last_credential_received, asyncFixed >>

\* faulty variant: the handler records the state only after its admin call
\* returned, so nothing is recorded while it is suspended
BeginHandlerStoresLate(msg) ==
    LET a == Apply(cred_state, msg.id, msg.state)
        p == PlanOf(msg, 0, CHOOSE d \in HolderDids : TRUE)
        awaits == a.fresh /\ Len(p.emitted) > 0
        call == [n |-> inflight.n + 1, msg |-> msg, at |-> 1]
    IN  /\ inflight.n < MaxDeliveries
        /\ cred_state' = IF awaits THEN cred_state ELSE a.cs
        /\ event' = msg
        /\ fresh' = a.fresh
        /\ emitted' = IF awaits THEN << Request(p.emitted[1]) >> ELSE << >>
        /\ raised' = IF a.fresh /\ ~awaits THEN p.raised ELSE "none"
        /\ inflight' = [inflight EXCEPT
                            !.n = @ + 1,
                            !.calls = IF awaits THEN @ \cup {call} ELSE @]
        /\ reported' = [reported EXCEPT ![msg.id] = msg.state]
        /\ UNCHANGED asyncRest
\* aries_agent.py 165-184 and 233-249: the handler of msg runs from its call
\* to its first await (the tracker's compare-and-store has no await in it),
\* or to its end when it has no admin call to make
BeginHandler(msg) ==
    LET a == Apply(cred_state, msg.id, msg.state)
        p == PlanOf(msg, 0, CHOOSE d \in HolderDids : TRUE)
        awaits == a.fresh /\ Len(p.emitted) > 0
        call == [n |-> inflight.n + 1, msg |-> msg, at |-> 1]
    IN  /\ inflight.n < MaxDeliveries
        /\ cred_state' = a.cs
        /\ event' = msg
        /\ fresh' = a.fresh
        /\ emitted' = IF awaits THEN << Request(p.emitted[1]) >> ELSE << >>
        /\ raised' = IF a.fresh /\ ~awaits THEN p.raised ELSE "none"
        /\ inflight' = [inflight EXCEPT
                            !.n = @ + 1,
                            !.calls = IF awaits THEN @ \cup {call} ELSE @]
        /\ reported' = [reported EXCEPT ![msg.id] = msg.state]
        /\ UNCHANGED asyncRest
\* the event feed delivers an event of an issuance topic
DeliverIssueEvent == \E msg \in LegacyMessages \cup V2Messages : BeginHandler(msg)

\* the response of the admin call a suspended handler awaits arrives: the
\* handler goes on to its next await or to its end
ResumeHandler ==
    \E h \in inflight.calls, fails \in BOOLEAN, did \in HolderDids :
        LET p == PlanOf(h.msg, IF fails THEN h.at ELSE 0, did)
            more == Len(p.emitted) > h.at
        IN  /\ event' = [topic |-> "response", n |-> h.n, id |-> h.msg.id,
                         finished |-> ~more]
            /\ emitted' = IF more THEN << Request(p.emitted[h.at + 1]) >> ELSE << >>
            /\ raised' = IF more THEN "none" ELSE p.raised
            /\ inflight' = [inflight EXCEPT !.calls =
                                (@ \ {h}) \cup IF more
                                               THEN {[h EXCEPT !.at = @ + 1]}
                                               ELSE {}]
            /\ UNCHANGED << cred_state, fresh, reported, asyncRest >>

\* aries_agent.py 275-283: the handler of an indy detail event runs to the
\* await of its credential fetch, or to its end when the event names no
\* stored credential.  marks keeps the events that name one, in delivery
\* order, with what became of their fetch.
DeliverIndyDetail ==
    \E msg \in IndyDetailMessages :
        LET awaits == msg.cred_id_stored # None
            k == inflight.n + 1
        IN  /\ inflight.n < MaxDeliveries
            /\ event' = msg
            /\ emitted' = IF awaits
                          THEN << Cmd("fetch-credential", "-", msg.cred_id_stored) >>
                          ELSE << >>
            /\ raised' = "none"
            /\ inflight' = [inflight EXCEPT
                                !.n = k,
                                !.fetches = IF awaits
                                            THEN @ \cup {[n |-> k, msg |-> msg]}
                                            ELSE @,
                                !.marks = IF awaits
                                          THEN Append(@, [n |-> k,
                                                          cred |-> msg.cred_id_stored,
                                                          outcome |-> "pending"])
                                          ELSE @]
            /\ UNCHANGED << cred_state, fresh, reported, asyncRest >>

\* aries_agent.py 283-289: the fetch of a suspended detail handler returns
\* (or fails) and the handler runs to its end
ResumeIndyDetail ==
    \E f \in inflight.fetches, fails \in BOOLEAN :
        LET r == handle_issue_credential_v2_0_indy(last_credential_received, f.msg,
                                                   IF fails THEN 1 ELSE 0)
        IN  /\ last_credential_received' = r.last
            /\ event' = [topic |-> "detail_response", n |-> f.n]
            /\ emitted' = << >>
            /\ raised' = r.raised
            /\ inflight' = [inflight EXCEPT
                                !.fetches = @ \ {f},
                                !.marks = [i \in DOMAIN @ |->
                                             IF @[i].n = f.n
                                             THEN [@[i] EXCEPT !.outcome =
                                                     IF fails THEN "failed"
                                                     ELSE "fetched"]
                                             ELSE @[i]]]
            /\ UNCHANGED << cred_state, fresh, reported, asyncFixed >>

NextAsync ==
    \/ DeliverIssueEvent
    \/ ResumeHandler
    \/ DeliverIndyDetail
    \/ ResumeIndyDetail
SpecAsync == Init /\ [][NextAsync]_vars

(***************************************************************************)
(* C29: exchanges are independent of each other                            *)
(***************************************************************************)
\* the exchange ids that have a suspended handler
Suspended == { h.msg.id : h \in inflight.calls }
\* a suspended handler keeps no event of another exchange from being handled
NotBlocked ==
    \A msg \in LegacyMessages \cup V2Messages :
        (inflight.n < MaxDeliveries /\ Suspended \ {msg.id} # {})
            => ENABLED BeginHandler(msg)
\* the recorded state of an exchange changes only in the handling of an
\* event of that exchange
OwnStateOnly ==
    \A i \in ExIds :
        cred_state'[i] # cred_state[i]
            => (event'.topic \in IssueTopics /\ event'.id = i)
\* C29: while the handler of one exchange is suspended at an admin call, an
\* event of another exchange id can be handled; and handling an event of
\* exchange id B never changes the state recorded for another id A
C29_ExchangesIndependent == [] NotBlocked /\ [][OwnStateOnly]_vars
\* the handler of one exchange ran from its event to its end, a command
\* and its response included, while a handler of another exchange that
\* began before it is still suspended
C29_Witness ==
    /\ event.topic = "response"
    /\ event.finished
    /\ raised = "none"
    /\ \E h \in inflight.calls : h.msg.id # event.id /\ h.n < event.n

(***************************************************************************)
(* C30: a multi-format presentation request without a known format         *)
(***************************************************************************)
V2RequestReceived ==
    event.topic = "present_proof_v2_0" /\ event.state = "request-received"
\* no admin call of the handler at hand failed
NoTransportFailure ==
    /\ raised # "ClientError"
    /\ \A k \in 1..Len(emitted) :
          emitted[k].cmd = "fetch-credentials" => emitted[k].result # None
SendPresentations == { k \in 1..Len(emitted) : emitted[k].cmd = "send-presentation" }
\* C30: a present_proof_v2_0 request-received event that names neither indy
\* nor dif raises before any admin command; with at least one format named
\* and no transport failure, exactly one send-presentation is emitted
C30_InvalidRequestOrOneSubmission ==
    V2RequestReceived
        => IF ~event.indy /\ ~event.dif
           THEN raised = "Exception" /\ emitted = << >>
           ELSE NoTransportFailure => Cardinality(SendPresentations) = 1

(***************************************************************************)
(* C31: a duplicate delivered while the first handler is suspended         *)
(***************************************************************************)
\* the calls suspended on the event e: same topic, exchange id and state
SuspendedOn(e) ==
    { h \in inflight.calls :
        h.msg.topic = e.topic /\ h.msg.id = e.id /\ h.msg.state = e.state }
\* the step delivers again the event a suspended handler is working on, with
\* no other report for that exchange id in between
DuplicateInFlight ==
    /\ event'.topic \in IssueTopics
    /\ inflight'.n = inflight.n + 1
    /\ SuspendedOn(event') # {}
    /\ reported[event'.id] = event'.state
StateCommands(e) ==
    IF e.topic = "issue_credential"
    THEN CASE e.state = "offer_received" -> << "send-request" >>
           [] e.state = "request_received" -> << "issue" >>
           [] e.state = "credential_acked" -> << "fetch-credential" >>
           [] OTHER -> << >>
    ELSE CASE e.state = "request-received" -> << "issue" >>
           [] e.state = "offer-received" /\ e.cred_offer \in {"indy", "both"} ->
                << "send-request" >>
           [] e.state = "offer-received" /\ e.cred_offer = "ld_proof" ->
                << "create-did", "send-request" >>
           [] OTHER -> << >>
CommandNames == [k \in 1..Len(emitted) |-> emitted[k].cmd]
\* the step delivers an issuance event that reports another state than the
\* last report for its exchange id did
StateDiffers ==
    event'.topic \in IssueTopics /\ reported[event'.id] # event'.state
StateRepeats ==
    event'.topic \in IssueTopics /\ reported[event'.id] = event'.state
\* C32: in any delivery sequence of issuance events, the commands of a state
\* are emitted at every position where the reported state differs from the
\* one reported just before for that exchange id (so S, T, S emits the
\* commands of S twice), and at no other position
C32_EmittedWhereStateDiffers ==
    [][ /\ (StateDiffers /\ raised' # "ClientError")
              => CommandNames' = StateCommands(event')
        /\ StateRepeats => emitted' = << >> ]_vars

(***************************************************************************)
(* C33: the reuse handlers and an empty readiness slot                     *)
(***************************************************************************)
ReuseTopics == {"connection_reuse", "connection_reuse_accepted"}
\* C33: a connection_reuse or connection_reuse_accepted event never raises,
\* whatever the readiness slot holds; delivered while the slot is empty it
\* is ignored without error and leaves connection_id as it was
C33_ReuseNeverRaises ==
    [][ event'.topic \in ReuseTopics
            => /\ raised' = "none"
               /\ connection_ready = None
                    => /\ connection_id' = connection_id
                       /\ connection_ready' = None ]_vars

(***************************************************************************)
(* C34: role declarations in one connection cycle                          *)
(***************************************************************************)
\* C34: for an agent with an endorser role, at most one set-endorser-role
\* command is emitted between one invitation and the next, also when a
\* response-sent and a completed event, or a repeated terminal event, are
\* delivered before detect_connection clears the future
C34_OneDeclarationPerCycle ==
    endorser_role \in {"author", "endorser"} => cycle.decls <= 1

(***************************************************************************)
(* C35: which future detect_connection clears                              *)
(***************************************************************************)
\* a suspended detect_connection caller resumes, and the slot holds by now
\* the future of a later invitation than the one it awaited
StaleResume ==
    /\ waiter.pos = "waiting"
    /\ waiter' = NoWaiter
    /\ waiter.fut # cycle.n
\* C35: when a new invitation installed a fresh readiness future while a
\* detect_connection caller was suspended or waiting to resume, the caller's
\* clear leaves the fresh future in the slot
C35_ClearsOnlyAwaitedFuture ==
    [][ StaleResume => connection_ready' = connection_ready ]_vars

(***************************************************************************)
(* C36: connections events and an empty readiness slot                     *)
(***************************************************************************)
\* the step delivers a connections event while the slot is empty
InertDelivery == event'.topic = "connections" /\ connection_ready = None
\* C36: while the readiness slot is empty (never created, or cleared by
\* detect_connection), handle_connections changes neither connection_id nor
\* the slot, emits no command and begins no pause, whatever the event
C36_ConnectionsInertWithoutFuture ==
    [][ InertDelivery
            => /\ connection_id' = connection_id
               /\ connection_ready' = None
               /\ emitted' = << >>
               /\ raised' = "none"
               /\ Len(timers') <= Len(timers)
               /\ cycle'.decls = cycle.decls ]_vars
\* the terminal event of a new connection was delivered to an agent with a
\* role after detect_connection cleared the slot, and nothing changed
C36_Witness ==
    /\ event.topic = "connections"
    /\ event.rfc23_state \in TerminalStates
    /\ event.id # connection_id
    /\ connection_id # NoConnection
    /\ connection_ready = None
    /\ cycle.returned
    /\ endorser_role # None
    /\ emitted = << >>

(***************************************************************************)
(* C37: events of a connection the agent does not track                    *)
(***************************************************************************)
\* the step delivers a connections event whose connection_id is not the one
\* the agent tracks once the assignments of lines 129-134 are made
ForeignDelivery == event'.topic = "connections" /\ event'.id # connection_id'
\* C37: a connections event of another connection than the tracked one never
\* resolves the readiness future and never leads to a set-endorser-role
\* command, whatever its rfc23_state
C37_OnlyTrackedConnectionResolves ==
    [][ ForeignDelivery
            => /\ connection_ready' = connection_ready
               /\ cycle'.sets = cycle.sets
               /\ waiter' = waiter
               /\ emitted' = << >>
               /\ Len(timers') <= Len(timers)
               /\ cycle'.decls = cycle.decls ]_vars
\* a terminal event of another connection reached an agent with a role
\* whose future is pending, and the future is still pending
C37_Witness ==
    /\ event.topic = "connections"
    /\ event.rfc23_state \in TerminalStates
    /\ connection_id # NoConnection
    /\ event.id # connection_id
    /\ connection_ready = "pending"
    /\ endorser_role \in {"author", "endorser"}
    /\ emitted = << >>
    /\ timers = << >>

(***************************************************************************)
(* C38: the marker when two detail handlers interleave                     *)
(***************************************************************************)
\* the detail events that named a stored credential, in delivery order
Marks == inflight.marks
\* at least two such events were delivered and every handler has finished,
\* its fetch answered
AllFetched ==
    /\ Len(Marks) >= 2
    /\ \A i \in 1..Len(Marks) : Marks[i].outcome = "fetched"
\* C38: when indy detail events carrying cred_id_stored were delivered one
\* after the other and their handlers interleave at the fetch, then once all
\* have finished last_credential_received is the credential of the event
\* delivered last, in whatever order the fetches completed
C38_MarkerFollowsDelivery ==
    AllFetched => last_credential_received = Marks[Len(Marks)].cred

(***************************************************************************)
(* C39: requested predicates that no held credential lists                 *)
(***************************************************************************)
\* a matched predicate referent is in requested_predicates, bound to an
\* attribute-based credential that lists it, the one its attribute entry is
\* bound to when the request names it as an attribute too
PredicateBound(r) ==
    /\ r \in DOMAIN IndyPart.requested_predicates
    /\ LET c == IndyPart.requested_predicates[r].cred_id
       IN  /\ c \in 1..Len(wallet)
           /\ wallet[c].kind = "indy"
           /\ r \in wallet[c].refs
           /\ r \in DOMAIN IndyPart.requested_attributes
                => IndyPart.requested_attributes[r].cred_id = c
\* C39 as claimed: a requested predicate referent that no held credential
\* lists is in none of the three maps of the submission; a matched one is in
\* requested_predicates with the credential the grouping chose for it
C39_UnmatchedPredicateInNoMap ==
    SentIndySubmission
        => \A r \in Range(pres_request.preds) :
              /\ ~Matched(r) =>
                    /\ r \notin DOMAIN IndyPart.requested_predicates
                    /\ r \notin DOMAIN IndyPart.requested_attributes
                    /\ r \notin DOMAIN IndyPart.self_attested_attributes
              /\ Matched(r) => PredicateBound(r)
\* C39 as amended: a requested predicate referent that no held credential
\* lists is neither in requested_predicates nor in requested_attributes, and
\* it is in self_attested_attributes exactly when the request names it as a
\* requested attribute too; a matched one is in requested_predicates with
\* the credential the grouping chose for it
C39_UnmatchedPredicateOmitted ==
    SentIndySubmission
        => \A r \in Range(pres_request.preds) :
              /\ ~Matched(r) =>
                    /\ r \notin DOMAIN IndyPart.requested_predicates
                    /\ r \notin DOMAIN IndyPart.requested_attributes
                    /\ r \in DOMAIN IndyPart.self_attested_attributes
                          <=> r \in Range(pres_request.attrs)
              /\ Matched(r) => PredicateBound(r)
\* a submission was sent for a request whose predicate referent no held
\* credential lists, while a credential was bound to another referent
C39_Witness ==
    /\ SentIndySubmission
    /\ \E r \in Range(pres_request.preds) :
          /\ ~Matched(r)
          /\ r \notin Range(pres_request.attrs)
          /\ r \notin DOMAIN IndyPart.requested_predicates
    /\ DOMAIN IndyPart.requested_attributes # {}

====
